---- MODULE Spec2Model ----
(***************************************************************************)
(* A model of gitlog-author: the LRU commit cache (src/utils/cache.js),    *)
(* the author resolver getAuthorCommits and the commit-detail lookup       *)
(* getCommitDetails (services/authorService), the two passes of            *)
(* AuthorCommand.execute that go through the shared cache, the diff        *)
(* change-set reconstructor, the commit type classifier, the risk          *)
(* assessment, the metrics service, the rolling trends, the command line   *)
(* and the review mode.                                                    *)
(*                                                                         *)
(* The specifications share the variables; each leaves the variables of    *)
(* the others at rest:                                                     *)
(*   SpecCache     one LRUCache instance under arbitrary get/set calls     *)
(*   Spec          calls of getAuthorCommits against a fixed repository    *)
(*   SpecPipeline  the metrics pass and the commit-log pass of execute     *)
(*   SpecDiff      categorizeFileChanges, buffered and streaming           *)
(*   SpecTypes     calculateTypeMetrics on a list of commits               *)
(*   SpecRisk      identifyRiskLevel on a path and its hunk lines          *)
(*   SpecVelocity  calculateVelocityMetrics on a list of commits           *)
(*   SpecLookups   message lookups racing on the shared commit cache       *)
(*   SpecTrends    getRollingTrends over calendar periods                  *)
(*   SpecCli       main of the command line, from arguments to exit        *)
(*   SpecReview    review mode with --create-branch and its cleanup        *)
(***************************************************************************)
EXTENDS Integers, Sequences, FiniteSets, TLC

VARIABLES
    cache,      \* LRUCache.cache: the Map, as its entries in insertion order
    maxSize,    \* LRUCache.maxSize
    touch,      \* history: per key, the time of its last set / successful get
    promoted,   \* history: the keys whose last touch was a successful get
    clock,      \* history: number of cache operations made so far
    lastOp,     \* history: the last cache operation, with the Map before it
    \* getAuthorCommits
    pc,             \* where the running call stands
    author,         \* parameter author
    since,          \* parameter since
    until,          \* parameter until
    includeDirs,    \* parameter includeDirs
    excludeDirs,    \* parameter excludeDirs
    patternIndex,   \* position of the for-of loop over authorPatterns
    filesToInclude, \* filesToInclude of the current loop iteration
    output,         \* output
    commits,        \* commits: the non-blank lines of output
    batchStart,     \* i, the offset of the running batch
    batchResults,   \* the promises of the running batch, one per line
    results,        \* results
    ret,            \* what the call returned or threw
    issued,         \* history: the execGitCommand calls of the running call
    cacheAtCall,    \* history: the cache when the running call was made
    \* AuthorCommand.execute, after getAuthorCommits
    pass,           \* the pass that is running: metrics (calculateVelocityMetrics) or log
    commitList,     \* commits, as getAuthorCommits returned them
    position,       \* metrics: the commit of the for-of loop; log: i, the chunk offset
    detailCalls,    \* the getCommitDetails calls awaited now
    requests,       \* history: every getCommitDetails call, in call order
    written,        \* the entries written to the commit-log stream, by hash
    touchLog,       \* history: the cache keys read with a hit or written, in order
    \* GitChangeService.categorizeFileChanges / ReviewCommand.categorizeFileChanges
    reconstructor,  \* which of the two implementations runs, and in which mode
    diffStream,     \* the text the diff command has not delivered yet
    buffer,         \* buffer (diffContent): the partial trailing line
    fullDiff,       \* fullDiff: the text received so far
    currentFile,    \* currentFile
    currentType,    \* currentType
    currentHunk,    \* currentHunk
    isInDiff,       \* isInDiff
    changes,        \* changes: the four Maps, file -> hunks
    settlement,     \* how the promise of categorizeFileChanges settled
    headerLog,      \* history: [status, file] taken at each `diff --git` line, in order
    \* commitTypeService.calculateTypeMetrics
    typeCommits,    \* commits, the argument
    typeCursor,     \* how many commits commits.forEach has visited
    lastTypes,      \* what categorizeCommit returned for the commit visited last
    typeCounts,     \* typeCounts, as its entries in insertion order
    typeMetrics,    \* the returned { typeBreakdown, primaryContributionType }
    \* RiskAssessmentService.identifyRiskLevel
    riskFile,       \* file, the path
    riskDiff,       \* diffContent, the hunk lines
    riskStep,       \* where identifyRiskLevel stands
    riskTier,       \* position of the running for-of loop over the tiers
    riskLevel,      \* riskLevel
    \* metricsService.calculateVelocityMetrics
    velocityCommits, \* commits, each with the files it changes and its UTC hour
    userTimezone,   \* userTimezone: hours east of UTC of the machine
    commitIndex,    \* how many commits the for-of loop has visited
    stats,          \* stats of the commit visited last
    impact,         \* impact of the commit visited last
    totalChanges,   \* totalChanges
    timeDistribution, \* timeDistribution, the three counters
    fileImpactData, \* fileImpactData: the Maps topFiles and directoryImpact
    commitsWithFiles, \* commitsWithFiles
    metrics,        \* what calculateVelocityMetrics returned
    \* getRollingTrends
    trendPeriod,    \* parameter period
    trendCount,     \* parameter count
    trendEndDate,   \* parameter endDate, as [y, m, d] with m from 0
    trendIndex,     \* i of the loop
    trends,         \* trends
    trendState,     \* where the call stands
    \* main of the command line
    cliArgs,        \* process.argv.slice(2), as the set of its arguments
    cliPc,          \* where main stands
    cliCommands,    \* history: the repository commands run so far
    cliExit,        \* how the process ends
    \* ReviewCommand.execute with --create-branch
    reviewArgs,     \* the options of the review and the repository it starts in
    repoBranches,   \* the branches of the repository
    repoHead,       \* the branch checked out, or "detached"
    reviewPc,       \* where execute stands
    originalBranch, \* originalBranch
    reviewBranch,   \* reviewBranch
    picked,         \* commits cherry-picked so far
    reviewOutcome   \* how execute ends

cacheVars == <<cache, maxSize, touch, promoted, clock, lastOp>>

resolverVars == <<pc, author, since, until, includeDirs, excludeDirs, patternIndex,
                  filesToInclude, output, commits, batchStart, batchResults,
                  results, ret, issued, cacheAtCall>>

pipelineVars == <<pass, commitList, position, detailCalls, requests, written, touchLog>>

diffVars == <<reconstructor, diffStream, buffer, fullDiff, currentFile, currentType,
              currentHunk, isInDiff, changes, settlement, headerLog>>

\* the state of the analyses that do not touch the commit cache
typeVars == <<typeCommits, typeCursor, lastTypes, typeCounts, typeMetrics>>

riskVars == <<riskFile, riskDiff, riskStep, riskTier, riskLevel>>

velocityVars == <<velocityCommits, userTimezone, commitIndex, stats, impact, totalChanges, timeDistribution, fileImpactData, commitsWithFiles, metrics>>

trendVars == <<trendPeriod, trendCount, trendEndDate, trendIndex, trends, trendState>>

cliVars == <<cliArgs, cliPc, cliCommands, cliExit>>

reviewVars == <<reviewArgs, repoBranches, repoHead, reviewPc, originalBranch, reviewBranch, picked, reviewOutcome>>

analysisVars == <<diffVars, typeVars, riskVars, velocityVars, trendVars, cliVars, reviewVars>>

vars == <<cacheVars, resolverVars, pipelineVars, analysisVars>>

(***************************************************************************)
(* Bounds of the model.                                                    *)
(***************************************************************************)
\* largest capacity an LRUCache is constructed with in SpecCache
MaxCap == 3
\* number of get/set calls made on the cache in SpecCache
MaxOps == 6

\* batchSize of getAuthorCommits (50 in the source), scaled to the repository
batchSize == 2
\* capacity of commitCache (1000 in the source), scaled to the repository
CommitCacheSize == 2

\* chunkSize of AuthorCommand.execute (15 in the source), scaled to the repository
chunkSize == 2

\* keys and values the callers of SpecCache use
Keys == {"k1", "k2", "k3", "k4"}
Values == {"v1", "v2"}

\* `null`, returned by get for a key that is not stored
null == "null"

(***************************************************************************)
(* LRUCache (src/utils/cache.js).  A JS Map iterates in insertion order;   *)
(* the Map is modelled as the sequence of its entries, oldest first.       *)
(***************************************************************************)
\* Map.prototype.has
has(c, key) == \E i \in 1..Len(c) : c[i].k = key

\* Map.prototype.get on a stored key
valueOf(c, key) == c[CHOOSE i \in 1..Len(c) : c[i].k = key].v

\* Map.prototype.delete
delete(c, key) == SelectSeq(c, LAMBDA e : e.k # key)

\* Map.prototype.set on a key that is not stored: appended last
append(c, key, value) == Append(c, [k |-> key, v |-> value])

\* this.cache.keys().next().value: the first key in insertion order
oldestKey(c) == c[1].k

\* the set of stored keys and the Map's size
keysOf(c) == {c[i].k : i \in 1..Len(c)}
size(c) == Len(c)

\* a get that returns the value without refreshing the entry
get_noRefresh(c, key) ==
    IF ~has(c, key)
    THEN [value |-> null, cache |-> c]
    ELSE [value |-> valueOf(c, key), cache |-> c]

\* LRUCache.get: [value, cache after the call]
get(c, key) ==
    IF ~has(c, key)
    THEN [value |-> null, cache |-> c]
    ELSE [value |-> valueOf(c, key),
          cache |-> append(delete(c, key), key, valueOf(c, key))]

\* a set that never evicts
set_noEvict(c, cap, key, value) ==
    append(delete(c, key), key, value)

\* a set that evicts whenever the cache is full, also on an update
set_evictOnUpdate(c, cap, key, value) ==
    IF size(c) >= cap
    THEN append(delete(delete(c, oldestKey(c)), key), key, value)
    ELSE append(delete(c, key), key, value)

\* LRUCache.set: the cache after the call
set(c, cap, key, value) ==
    IF has(c, key)
    THEN append(delete(c, key), key, value)
    ELSE IF size(c) >= cap
         THEN append(delete(c, oldestKey(c)), key, value)
         ELSE append(c, key, value)

(***************************************************************************)
(* Strings.  A JS string is the sequence of its characters; the helpers    *)
(* below are the String methods the resolver uses.                         *)
(***************************************************************************)
\* whitespace as String.prototype.trim sees it
isSpace(ch) == ch \in {" ", "\n"}

\* String.prototype.trim
RECURSIVE trimStart(_)
trimStart(s) ==
    IF s # << >> /\ isSpace(Head(s)) THEN trimStart(Tail(s)) ELSE s

RECURSIVE trimEnd(_)
trimEnd(s) ==
    IF s # << >> /\ isSpace(s[Len(s)])
    THEN trimEnd(SubSeq(s, 1, Len(s) - 1))
    ELSE s

trim(s) == trimEnd(trimStart(s))

\* String.prototype.includes for a single character
includes(s, ch) == \E i \in 1..Len(s) : s[i] = ch

\* String.prototype.split(sep) for a single-character separator: the
\* pieces between the separators, empty pieces kept
RECURSIVE split(_, _)
split(s, sep) ==
    IF ~includes(s, sep)
    THEN <<s>>
    ELSE LET i == CHOOSE j \in 1..Len(s) :
                      s[j] = sep /\ \A m \in 1..(j - 1) : s[m] # sep
         IN <<SubSeq(s, 1, i - 1)>> \o split(SubSeq(s, i + 1, Len(s)), sep)

\* Array.prototype.join(sep), sep a string
RECURSIVE join(_, _)
join(parts, sep) ==
    IF parts = << >> THEN << >>
    ELSE IF Len(parts) = 1 THEN parts[1]
    ELSE parts[1] \o sep \o join(Tail(parts), sep)

\* String.prototype.replace(/"/g, '')
stripQuotes(s) == SelectSeq(s, LAMBDA ch : ch # "\"")

\* concatenation of a list of strings
RECURSIVE concat(_)
concat(parts) == IF parts = << >> THEN << >> ELSE Head(parts) \o concat(Tail(parts))

(***************************************************************************)
(* The repository the Command Executor runs against: three commits, the    *)
(* tracked paths, and the text git prints.  An author date `%aI` is        *)
(* written hh+o / hh-o: local hour, sign, hours east of UTC.               *)
(***************************************************************************)
Commits ==
    { [hash |-> <<"a", "1">>, author |-> <<"J", " ", " ", "D", "<", "j", "@", ">">>,
       date |-> <<"1", "0", "+", "2">>, subject |-> <<"x">>, body |-> <<"y">>,
       files |-> {<<"s", "/", "a">>}, stat |-> <<"s", "/", "a", " ", "|", " ", "2", "\n">>],
      [hash |-> <<"b", "2">>, author |-> <<"J", " ", " ", "D", "<", "j", "@", ">">>,
       date |-> <<"0", "9", "+", "0">>, subject |-> <<"x", "|", "z">>, body |-> << >>,
       files |-> {<<"l", "/", "b">>}, stat |-> <<"l", "/", "b", " ", "|", " ", "1", "\n">>],
      [hash |-> <<"c", "3">>, author |-> <<"K", "<", "k", "@", ">">>,
       date |-> <<"0", "9", "-", "1">>, subject |-> << >>, body |-> << >>,
       files |-> {<<"r">>, <<"s", "/", "a">>}, stat |-> <<"r", " ", "|", " ", "3", "\n">>] }

Hashes == {c.hash : c \in Commits}
commitOf(h) == CHOOSE c \in Commits : c.hash = h

\* `git ls-files`: the tracked paths, one per line
TrackedPaths == << <<"l", "/", "b">>, <<"r">>, <<"s", "/", "a">> >>
lsFilesOutput == concat([i \in 1..Len(TrackedPaths) |-> TrackedPaths[i] \o <<"\n">>])

(***************************************************************************)
(* Input validation of getAuthorCommits.                                   *)
(***************************************************************************)
\* the characters of /[<>|&;$]/
UnsafeChars == {"<", ">", "|", "&", ";", "$"}

\* a check that forgets the statement separator
isValidDateFormat_noSemicolon(date) ==
    /\ Len(trim(date)) > 0
    /\ ~\E i \in 1..Len(date) : date[i] \in UnsafeChars \ {";"}

\* isValidDateFormat
isValidDateFormat(date) ==
    /\ Len(trim(date)) > 0
    /\ ~\E i \in 1..Len(date) : date[i] \in UnsafeChars

\* the error the validation of getAuthorCommits throws, or "none"
validationError(a, from, to) ==
    IF trim(a) = << >> THEN "INVALID_AUTHOR"
    ELSE IF from # << >> /\ ~isValidDateFormat(from) THEN "INVALID_DATE_FORMAT"
    ELSE IF to # << >> /\ ~isValidDateFormat(to) THEN "INVALID_DATE_FORMAT"
    ELSE "none"

(***************************************************************************)
(* Author patterns.  A pattern is the string handed to --author; each of   *)
(* its characters is tagged "esc" when escapeRegex put a backslash before  *)
(* it and "raw" otherwise.                                                 *)
(***************************************************************************)
\* the characters of /[.*+?^${}()|[\]\\]/
RegexSpecial == {".", "*", "+", "?", "^", "$", "{", "}", "(", ")", "|", "[", "]", "\\"}

raw(ch) == [t |-> "raw", c |-> ch]
esc(ch) == [t |-> "esc", c |-> ch]

\* escapeRegex
escapeRegex(str) ==
    [i \in 1..Len(str) |-> IF str[i] \in RegexSpecial THEN esc(str[i]) ELSE raw(str[i])]

\* authorName.split(' ').map(escapeRegex).join('.*')
flexible(authorName) ==
    LET tokens == split(authorName, " ") IN
    join([i \in 1..Len(tokens) |-> escapeRegex(tokens[i])], <<raw("."), raw("*")>>)

\* authorPatterns
authorPatterns(a) ==
    LET authorName == trim(a) IN
    << escapeRegex(authorName),
       IF includes(authorName, "@") THEN escapeRegex(authorName)
       ELSE flexible(authorName),
       IF includes(authorName, "@") THEN escapeRegex(authorName)
       ELSE flexible(authorName) \o <<raw("|")>> \o escapeRegex(authorName) >>

(***************************************************************************)
(* What git does with an --author pattern: a regular-expression search in  *)
(* "Name <email>".  Only the constructs authorPatterns produces are read:  *)
(* escaped characters, ordinary characters, `.`, `.*` and `|`.             *)
(***************************************************************************)
lower(ch) ==
    CASE ch = "J" -> "j" [] ch = "D" -> "d" [] ch = "K" -> "k" [] OTHER -> ch

sameChar(a, b, ignoreCase) == IF ignoreCase THEN lower(a) = lower(b) ELSE a = b

isDotStar(p, i) ==
    /\ i + 1 <= Len(p)
    /\ p[i] = raw(".")
    /\ p[i + 1] = raw("*")

\* whether pattern p from its i-th character matches s from position j
RECURSIVE matchAt(_, _, _, _, _)
matchAt(p, i, s, j, ignoreCase) ==
    IF i > Len(p) THEN TRUE
    ELSE IF isDotStar(p, i)
    THEN \E k \in j..(Len(s) + 1) : matchAt(p, i + 2, s, k, ignoreCase)
    ELSE /\ j <= Len(s)
         /\ \/ p[i] = raw(".")
            \/ sameChar(p[i].c, s[j], ignoreCase)
         /\ matchAt(p, i + 1, s, j + 1, ignoreCase)

\* the alternatives of a pattern: its pieces between unescaped `|`
alternatives(p) == split(p, raw("|"))

\* regex search of pattern p in string s
search(p, s, ignoreCase) ==
    \E a \in 1..Len(alternatives(p)) : \E j \in 1..(Len(s) + 1) :
        matchAt(alternatives(p)[a], 1, s, j, ignoreCase)

(***************************************************************************)
(* SpecCache: one cache, constructed with a capacity N >= 1, and any       *)
(* sequence of get and set calls on it.                                    *)
(***************************************************************************)
NoOp == [op |-> "none", key |-> null, value |-> null, before |-> << >>]

\* no call of getAuthorCommits is running
ResolverIdle ==
    /\ pc = "idle"
    /\ author = << >> /\ since = << >> /\ until = << >>
    /\ includeDirs = << >> /\ excludeDirs = << >>
    /\ patternIndex = 0
    /\ filesToInclude = << >>
    /\ output = << >>
    /\ commits = << >>
    /\ batchStart = 0
    /\ batchResults = << >>
    /\ results = << >>
    /\ ret = [kind |-> "none"]
    /\ issued = << >>
    /\ cacheAtCall = << >>

\* AuthorCommand.execute is not running
PipelineOff ==
    /\ pass = "off"
    /\ commitList = << >>
    /\ position = 0
    /\ detailCalls = << >>
    /\ requests = << >>
    /\ written = << >>
    /\ touchLog = << >>

\* no diff is being categorized
DiffOff ==
    /\ reconstructor = [impl |-> "none", stream |-> FALSE, diff |-> << >>]
    /\ diffStream = << >>
    /\ buffer = << >>
    /\ fullDiff = << >>
    /\ currentFile = << >>
    /\ currentType = null
    /\ currentHunk = << >>
    /\ isInDiff = FALSE
    /\ headerLog = << >>
    /\ changes = << >>
    /\ settlement = [kind |-> "none"]

\* calculateTypeMetrics is not running
TypesOff ==
    /\ typeCommits = << >>
    /\ typeCursor = 0
    /\ lastTypes = << >>
    /\ typeCounts = << >>
    /\ typeMetrics = [kind |-> "none"]

\* identifyRiskLevel is not running
RiskOff ==
    /\ riskFile = << >>
    /\ riskDiff = << >>
    /\ riskStep = "off"
    /\ riskTier = 0
    /\ riskLevel = "LOW"

\* calculateVelocityMetrics is not running
VelocityOff ==
    /\ velocityCommits = << >>
    /\ userTimezone = 0
    /\ commitIndex = 0
    /\ stats = [isNull |-> TRUE]
    /\ impact = [isNull |-> TRUE]
    /\ totalChanges = 0
    /\ timeDistribution = [morning |-> 0, afternoon |-> 0, evening |-> 0]
    /\ fileImpactData = [topFiles |-> << >>, directoryImpact |-> << >>]
    /\ commitsWithFiles = << >>
    /\ metrics = [kind |-> "none"]

\* getRollingTrends is not running
TrendsOff ==
    /\ trendPeriod = "none"
    /\ trendCount = 0
    /\ trendEndDate = [y |-> 0, m |-> 0, d |-> 0]
    /\ trendIndex = 0
    /\ trends = << >>
    /\ trendState = "off"

\* the command line is not running
CliOff ==
    /\ cliArgs = {}
    /\ cliPc = "off"
    /\ cliCommands = << >>
    /\ cliExit = [kind |-> "none"]

\* no review is running
ReviewOff ==
    /\ reviewArgs = [cleanup |-> FALSE, branchName |-> null, start |-> null, existing |-> {}, commitCount |-> 0]
    /\ repoBranches = {}
    /\ repoHead = null
    /\ reviewPc = "off"
    /\ originalBranch = null
    /\ reviewBranch = null
    /\ picked = 0
    /\ reviewOutcome = [kind |-> "none"]

\* no analysis is running
AnalysisOff == DiffOff /\ TypesOff /\ RiskOff /\ VelocityOff /\ TrendsOff /\ CliOff /\ ReviewOff

InitCache ==
    /\ ResolverIdle
    /\ PipelineOff
    /\ AnalysisOff
    /\ maxSize \in 1..MaxCap
    /\ cache = << >>
    /\ touch = [k \in Keys |-> 0]
    /\ promoted = {}
    /\ clock = 0
    /\ lastOp = NoOp

\* a caller's cache.get(key)
Get(key) ==
    /\ clock < MaxOps
    /\ cache' = get(cache, key).cache
    /\ clock' = clock + 1
    /\ touch' = IF has(cache, key) THEN [touch EXCEPT ![key] = clock + 1] ELSE touch
    /\ promoted' = IF has(cache, key) THEN promoted \cup {key} ELSE promoted
    /\ lastOp' = [op |-> "get", key |-> key, value |-> get(cache, key).value,
                  before |-> cache]
    /\ UNCHANGED <<maxSize, resolverVars, pipelineVars, analysisVars>>

\* a caller's cache.set(key, value)
Set(key, value) ==
    /\ clock < MaxOps
    /\ cache' = set(cache, maxSize, key, value)
    /\ clock' = clock + 1
    /\ touch' = [touch EXCEPT ![key] = clock + 1]
    /\ promoted' = promoted \ {key}
    /\ lastOp' = [op |-> "set", key |-> key, value |-> value, before |-> cache]
    /\ UNCHANGED <<maxSize, resolverVars, pipelineVars, analysisVars>>

NextCache ==
    \/ \E key \in Keys : Get(key)
    \/ \E key \in Keys, value \in Values : Set(key, value)

SpecCache == InitCache /\ [][NextCache]_vars

(***************************************************************************)
(* C1: for every LRU cache with capacity N >= 1 and every sequence of get  *)
(* and set operations on it, the number of stored entries never exceeds N. *)
(***************************************************************************)
C1_SizeWithinCapacity == size(cache) <= maxSize

\* a set on a full cache has just inserted a new key
C1_Witness ==
    /\ lastOp.op = "set"
    /\ size(lastOp.before) = maxSize
    /\ ~has(lastOp.before, lastOp.key)
    /\ size(cache) = maxSize

(***************************************************************************)
(* C2: when set inserts a key that is not present into a full cache,       *)
(* exactly one entry is removed, and it is the key whose last touch (last  *)
(* set or last successful get) is the oldest; so a key read by get has     *)
(* been promoted and outlives the keys not touched since.                  *)
(***************************************************************************)
InsertedIntoFull ==
    /\ lastOp.op = "set"
    /\ ~has(lastOp.before, lastOp.key)
    /\ size(lastOp.before) >= maxSize

C2_EvictsLeastRecentlyTouched ==
    InsertedIntoFull =>
        LET removed == keysOf(lastOp.before) \ keysOf(cache) IN
        /\ Cardinality(removed) = 1
        /\ \A r \in removed : \A k \in keysOf(lastOp.before) \ {r} :
               touch[r] < touch[k]
        /\ has(cache, lastOp.key)
        /\ \A k \in keysOf(cache) \ {lastOp.key} :
               valueOf(cache, k) = valueOf(lastOp.before, k)

\* the oldest inserted key was read by get and survives; the key inserted
\* after it, not touched since, is the one evicted
C2_Witness ==
    /\ InsertedIntoFull
    /\ maxSize >= 2
    /\ \E r \in keysOf(lastOp.before) \ keysOf(cache) :
           \E k \in (keysOf(cache) \ {lastOp.key}) \cap promoted :
               touch[r] < touch[k]

(***************************************************************************)
(* C3: set on a key that is already present replaces its value and makes   *)
(* it most-recently-used without removing any other entry, even when the   *)
(* cache is at capacity.                                                   *)
(***************************************************************************)
UpdatedPresent ==
    /\ lastOp.op = "set"
    /\ has(lastOp.before, lastOp.key)

C3_UpdateKeepsOthers ==
    UpdatedPresent =>
        /\ keysOf(cache) = keysOf(lastOp.before)
        /\ size(cache) = size(lastOp.before)
        /\ valueOf(cache, lastOp.key) = lastOp.value
        /\ cache[Len(cache)].k = lastOp.key
        /\ \A k \in keysOf(cache) \ {lastOp.key} :
               valueOf(cache, k) = valueOf(lastOp.before, k)
        /\ delete(cache, lastOp.key) = delete(lastOp.before, lastOp.key)

\* an update of the oldest entry of a full cache, with a new value
C3_Witness ==
    /\ UpdatedPresent
    /\ size(lastOp.before) = maxSize
    /\ maxSize >= 2
    /\ oldestKey(lastOp.before) = lastOp.key
    /\ valueOf(lastOp.before, lastOp.key) # lastOp.value

(***************************************************************************)
(* What the Command Executor prints for the commands of getAuthorCommits.  *)
(***************************************************************************)
digit(ch) ==
    CASE ch = "0" -> 0 [] ch = "1" -> 1 [] ch = "2" -> 2 [] ch = "3" -> 3
      [] ch = "8" -> 8 [] ch = "9" -> 9 [] OTHER -> 0

\* new Date(date) for a date hh+o / hh-o: the hour in UTC
instant(date) ==
    (10 * digit(date[1]) + digit(date[2]))
        - (IF date[3] = "-" THEN 0 - digit(date[4]) ELSE digit(date[4]))

\* git's reading of --since=<hour> against the author date
sinceHolds(c, from) == from = << >> \/ instant(c.date) >= digit(from[1])

\* a pathspec names a file, a directory above it, or `.`
covers(spec, file) ==
    \/ spec = <<".">>
    \/ spec = file
    \/ /\ Len(spec) < Len(file)
       /\ SubSeq(file, 1, Len(spec)) = spec
       /\ file[Len(spec) + 1] = "/"

\* whether a commit touches a file of the path scope
inScope(c, paths) ==
    \/ paths = << >>
    \/ \E f \in c.files : \E k \in 1..Len(paths) : covers(paths[k], f)

\* the commits `git log` with these arguments lists
matching(args) ==
    {c \in Commits : /\ search(args.author, c.author, args.ignoreCase)
                     /\ sinceHolds(c, args.since)
                     /\ inScope(c, args.paths)}

\* the orders in which a set of commits can be printed
orders(S) ==
    {q \in [1..Cardinality(S) -> S] : \A m, n \in 1..Cardinality(S) : m # n => q[m] # q[n]}

\* --pretty=format:"%H|%aI"
formatLine(c) == <<"\"">> \o c.hash \o <<"|">> \o c.date \o <<"\"">>

\* the text of `git log` listing the commits q, one line each
logOutput(q) == join([n \in 1..Len(q) |-> formatLine(q[n])], <<"\n">>)

\* the text of `git show -s --format=%s|%b` for a commit
showOutput(h) == commitOf(h).subject \o <<"|">> \o commitOf(h).body \o <<"\n">>

(***************************************************************************)
(* getAuthorCommits, after validation.                                     *)
(***************************************************************************)
\* the regex sources of EXCLUDED_PATTERNS (pattern.toString().slice(1, -1))
EXCLUDED_PATTERNS ==
    << "package-lock\\.json$", "yarn\\.lock$", "\\.min\\.(js|css)$", "\\.(map|d\\.ts)$",
       "^node_modules\\/", "^dist\\/", "^build\\/", "^\\.nx\\/", "^coverage\\/",
       "^\\.next\\/", "^\\.cache\\/" >>

\* whether the loop body runs `git ls-files` before the log query
needsLsFiles == includeDirs = << >> /\ excludeDirs # << >>

\* the filter of allFiles.split('\n'): file.trim() && !excludeDirs.some(dir => file === dir)
keepFile(file, dirs) ==
    /\ trim(file) # << >>
    /\ ~\E d \in 1..Len(dirs) : file = dirs[d]

\* filesToInclude computed from the text of `git ls-files`
filterFiles(allFiles, dirs) ==
    SelectSeq(split(allFiles, "\n"), LAMBDA file : keepFile(file, dirs))

\* the arguments of the log query for one pattern
logArgs(pattern, patterns) ==
    [cmd |-> "log",
     author |-> pattern,
     since |-> since,
     until |-> until,
     ignoreCase |-> (pattern = patterns[3]),
     paths |-> IF includeDirs # << >> THEN includeDirs
               ELSE IF excludeDirs # << >> THEN filesToInclude
               ELSE << <<".">> >>,
     excludes |-> IF includeDirs = << >> /\ excludeDirs # << >>
                  THEN [n \in 1..Len(EXCLUDED_PATTERNS) |-> <<":(exclude)", EXCLUDED_PATTERNS[n]>>]
                  ELSE << >>]

\* output.split('\n').filter(line => line.trim())
nonBlankLines(text) == SelectSeq(split(text, "\n"), LAMBDA line : trim(line) # << >>)

\* const [hash, date] = line.replace(/"/g, '').split('|')
parseLine(line) ==
    LET parts == split(stripQuotes(line), "|") IN
    [hash |-> parts[1], date |-> IF Len(parts) >= 2 THEN parts[2] ELSE << >>]

\* const [subject, ...bodyParts] = messageOutput.split('|'); body joined and trimmed
parseMessage(messageOutput) ==
    LET parts == split(messageOutput, "|") IN
    <<parts[1], trim(join(Tail(parts), <<"|">>))>>

\* a loop that starts the lookups of every remaining line at once
batchOf_all(lines, start) == SubSeq(lines, start + 1, Len(lines))

\* commits.slice(i, i + batchSize)
batchOf(lines, start) ==
    SubSeq(lines, start + 1, IF start + batchSize < Len(lines) THEN start + batchSize ELSE Len(lines))

\* the synchronous part of batch.map(async line => ...): per line, in order,
\* commitCache.get(hash) and, on a miss, the start of `git show`
RECURSIVE startLookups(_, _)
startLookups(lines, c) ==
    IF lines = << >> THEN [cache |-> c, promises |-> << >>]
    ELSE LET line == parseLine(Head(lines))
             hit  == has(c, line.hash)
             got  == get(c, line.hash)
             rest == startLookups(Tail(lines), got.cache)
             promise ==
                 IF hit
                 THEN [state |-> "cached", hash |-> line.hash, date |-> line.date,
                       subject |-> got.value[1], body |-> got.value[2]]
                 ELSE [state |-> "pending", hash |-> line.hash, date |-> line.date,
                       subject |-> << >>, body |-> << >>]
         IN [cache |-> rest.cache, promises |-> <<promise>> \o rest.promises]

\* the `git show` commands a batch starts
showCommands(promises) ==
    LET pend == SelectSeq(promises, LAMBDA pr : pr.state = "pending") IN
    [n \in 1..Len(pend) |-> [cmd |-> "show", hash |-> pend[n].hash, result |-> "pending"]]

commitRecord(pr) == [hash |-> pr.hash, date |-> pr.date, subject |-> pr.subject, body |-> pr.body]

\* (a, b) => new Date(b.date) - new Date(a.date) < 0: a sorts before b
newer(x, y) == instant(x.date) > instant(y.date)

\* Array.prototype.sort, stable, with that comparator
RECURSIVE insertSorted(_, _)
insertSorted(sorted, x) ==
    IF sorted = << >> THEN <<x>>
    ELSE IF newer(x, Head(sorted)) THEN <<x>> \o sorted
    ELSE <<Head(sorted)>> \o insertSorted(Tail(sorted), x)

RECURSIVE sortByDate(_)
sortByDate(list) ==
    IF list = << >> THEN << >>
    ELSE insertSorted(sortByDate(SubSeq(list, 1, Len(list) - 1)), list[Len(list)])

(***************************************************************************)
(* Spec: calls of getAuthorCommits, one at a time, against the repository, *)
(* sharing the module-level commitCache.  Every command may fail.          *)
(***************************************************************************)
\* the arguments the callers pass
AuthorQueries ==
    { <<"J", " ", "D">>, <<"j", " ", "d">>, <<"@">>, <<"K", " ">>, <<"Z">>, <<".">>,
      << >>, <<" ">> }
SinceValues == { << >>, <<"9">>, <<" ">>, <<"<", "9">> }
UntilValues == { << >>, <<"9", ";">> }
IncludeValues == { << >>, << <<"s">> >> }
ExcludeValues == { << >>, << <<"s">> >>, << <<"l", "/", "b">> >> }

\* the codes execGitCommand rejects with
ExecErrors == {"GIT_OPERATION_FAILED", "NOT_GIT_REPO"}

historyUnchanged == UNCHANGED <<maxSize, touch, promoted, clock, lastOp, pipelineVars, analysisVars>>

Init ==
    /\ ResolverIdle
    /\ PipelineOff
    /\ AnalysisOff
    /\ cache = << >>
    /\ maxSize = CommitCacheSize
    /\ touch = [k \in Keys |-> 0]
    /\ promoted = {}
    /\ clock = 0
    /\ lastOp = NoOp

\* getAuthorCommits is called: the validation, up to the first await
Call(a, from, to, inc, exc) ==
    /\ pc = "idle"
    /\ author' = a /\ since' = from /\ until' = to
    /\ includeDirs' = inc /\ excludeDirs' = exc
    /\ patternIndex' = 1
    /\ filesToInclude' = << >>
    /\ output' = << >>
    /\ commits' = << >>
    /\ batchStart' = 0
    /\ batchResults' = << >>
    /\ results' = << >>
    /\ issued' = << >>
    /\ cacheAtCall' = cache
    /\ IF validationError(a, from, to) # "none"
       THEN /\ ret' = [kind |-> "error", code |-> validationError(a, from, to)]
            /\ pc' = "done"
       ELSE /\ ret' = [kind |-> "none"]
            /\ pc' = IF inc = << >> /\ exc # << >> THEN "ls" ELSE "log"
    /\ UNCHANGED cache
    /\ historyUnchanged

\* const allFiles = await execGitCommand('git', ['ls-files']) resolves
LsFilesDone ==
    /\ pc = "ls"
    /\ filesToInclude' = filterFiles(lsFilesOutput, excludeDirs)
    /\ issued' = Append(issued, [cmd |-> "ls-files", result |-> "ok"])
    /\ pc' = "log"
    /\ UNCHANGED <<cache, cacheAtCall, author, since, until, includeDirs, excludeDirs, patternIndex,
                   output, commits, batchStart, batchResults, results, ret>>
    /\ historyUnchanged

\* ... or rejects: the GitLogError leaves getAuthorCommits through the outer catch
LsFilesFail(code) ==
    /\ pc = "ls"
    /\ issued' = Append(issued, [cmd |-> "ls-files", result |-> "fail"])
    /\ ret' = [kind |-> "error", code |-> code]
    /\ pc' = "done"
    /\ UNCHANGED <<cache, cacheAtCall, author, since, until, includeDirs, excludeDirs, patternIndex,
                   filesToInclude, output, commits, batchStart, batchResults, results>>
    /\ historyUnchanged

\* the loop goes on after the query of the current pattern, `out` being output
afterQuery(out, break) ==
    IF ~break /\ patternIndex < 3
    THEN /\ patternIndex' = patternIndex + 1
         /\ pc' = IF needsLsFiles THEN "ls" ELSE "log"
         /\ UNCHANGED <<commits, ret>>
    ELSE /\ UNCHANGED patternIndex
         /\ IF trim(out) = << >>
            THEN /\ ret' = [kind |-> "ok", commits |-> << >>]
                 /\ pc' = "done"
                 /\ UNCHANGED commits
            ELSE /\ commits' = nonBlankLines(out)
                 /\ pc' = "batch"
                 /\ UNCHANGED ret

\* catch (error) { continue; }
afterFail(out) == afterQuery(out, FALSE)

\* an afterQuery that never breaks: every pattern is queried
afterOutput_noBreak(out) == afterQuery(out, FALSE)

\* output = await ...; if (output.trim()) break;
afterOutput(out) == afterQuery(out, trim(out) # << >>)

\* output = await execGitCommand('git', args) resolves with the listing q
LogQueryDone ==
    /\ pc = "log"
    /\ LET patterns == authorPatterns(author)
           args == logArgs(patterns[patternIndex], patterns)
       IN \E q \in orders(matching(args)) :
            /\ output' = logOutput(q)
            /\ issued' = Append(issued, [args EXCEPT !.cmd = "log"] @@
                                        [result |-> "ok", out |-> logOutput(q)])
            /\ afterOutput(logOutput(q))
    /\ UNCHANGED <<cache, cacheAtCall, author, since, until, includeDirs, excludeDirs,
                   filesToInclude, batchStart, batchResults, results>>
    /\ historyUnchanged

\* ... or rejects
LogQueryFail ==
    /\ pc = "log"
    /\ LET patterns == authorPatterns(author)
           args == logArgs(patterns[patternIndex], patterns)
       IN issued' = Append(issued, args @@ [result |-> "fail", out |-> << >>])
    /\ afterFail(output)
    /\ UNCHANGED <<cache, cacheAtCall, author, since, until, includeDirs, excludeDirs, output,
                   filesToInclude, batchStart, batchResults, results>>
    /\ historyUnchanged

\* Promise.all(batch.map(...)): the synchronous part of every callback
StartBatch ==
    /\ pc = "batch"
    /\ LET st == startLookups(batchOf(commits, batchStart), cache) IN
         /\ cache' = st.cache
         /\ batchResults' = st.promises
         /\ issued' = issued \o showCommands(st.promises)
    /\ pc' = "await"
    /\ UNCHANGED <<cacheAtCall, author, since, until, includeDirs, excludeDirs, patternIndex,
                   filesToInclude, output, commits, batchStart, results, ret>>
    /\ historyUnchanged

\* the history of commands with the pending `git show` of hash h settled
settled(h, how) ==
    [k \in 1..Len(issued) |->
        IF issued[k].cmd = "show" /\ issued[k].hash = h /\ issued[k].result = "pending"
        THEN [issued[k] EXCEPT !.result = how]
        ELSE issued[k]]

\* a callback whose failed lookup rejects its promise: the call fails
lookupFailed_rethrow(n) ==
    /\ batchResults' = [batchResults EXCEPT ![n].state = "failed"]
    /\ ret' = [kind |-> "error", code |-> "GIT_OPERATION_FAILED"]
    /\ pc' = "done"

\* catch (error) { return { hash, date, subject: '', body: '' }; }
lookupFailed(n) ==
    /\ batchResults' = [batchResults EXCEPT ![n].state = "failed",
                                             ![n].subject = << >>, ![n].body = << >>]
    /\ UNCHANGED <<ret, pc>>

\* the `git show` of the n-th line of the batch resolves
LookupDone(n) ==
    /\ pc = "await"
    /\ n \in 1..Len(batchResults)
    /\ batchResults[n].state = "pending"
    /\ LET message == parseMessage(showOutput(batchResults[n].hash)) IN
         /\ cache' = set(cache, maxSize, batchResults[n].hash, message)
         /\ batchResults' = [batchResults EXCEPT ![n].state = "fetched",
                                                  ![n].subject = message[1],
                                                  ![n].body = message[2]]
    /\ issued' = settled(batchResults[n].hash, "ok")
    /\ UNCHANGED <<pc, cacheAtCall, author, since, until, includeDirs, excludeDirs, patternIndex,
                   filesToInclude, output, commits, batchStart, results, ret>>
    /\ historyUnchanged

\* ... or rejects
LookupFail(n) ==
    /\ pc = "await"
    /\ n \in 1..Len(batchResults)
    /\ batchResults[n].state = "pending"
    /\ lookupFailed(n)
    /\ issued' = settled(batchResults[n].hash, "fail")
    /\ UNCHANGED <<cache, cacheAtCall, author, since, until, includeDirs, excludeDirs, patternIndex,
                   filesToInclude, output, commits, batchStart, results>>
    /\ historyUnchanged

\* a return that leaves the results in batch order
finalOrder_unsorted(list) == list

\* results.sort((a, b) => new Date(b.date) - new Date(a.date))
finalOrder(list) == sortByDate(list)

\* every promise of the batch has settled: results.push(...batchResults), then
\* the pause before the next batch or the sorted return
BatchDone ==
    /\ pc = "await"
    /\ \A n \in 1..Len(batchResults) : batchResults[n].state # "pending"
    /\ LET all == results \o [n \in 1..Len(batchResults) |-> commitRecord(batchResults[n])] IN
         /\ results' = all
         /\ IF batchStart + batchSize < Len(commits)
            THEN /\ pc' = "pause"
                 /\ UNCHANGED ret
            ELSE /\ pc' = "done"
                 /\ ret' = [kind |-> "ok", commits |-> finalOrder(all)]
    /\ UNCHANGED <<cache, cacheAtCall, author, since, until, includeDirs, excludeDirs, patternIndex,
                   filesToInclude, output, commits, batchStart, batchResults, issued>>
    /\ historyUnchanged

\* await new Promise(resolve => setTimeout(resolve, 50)); i += batchSize
Pause ==
    /\ pc = "pause"
    /\ batchStart' = batchStart + batchSize
    /\ pc' = "batch"
    /\ UNCHANGED <<cache, cacheAtCall, author, since, until, includeDirs, excludeDirs, patternIndex,
                   filesToInclude, output, commits, batchResults, results, ret, issued>>
    /\ historyUnchanged

\* the caller has taken the result; the locals of the call are gone
Returned ==
    /\ pc = "done"
    /\ pc' = "idle"
    /\ author' = << >> /\ since' = << >> /\ until' = << >>
    /\ includeDirs' = << >> /\ excludeDirs' = << >>
    /\ patternIndex' = 0
    /\ filesToInclude' = << >>
    /\ output' = << >>
    /\ commits' = << >>
    /\ batchStart' = 0
    /\ batchResults' = << >>
    /\ results' = << >>
    /\ ret' = [kind |-> "none"]
    /\ issued' = << >>
    /\ cacheAtCall' = << >>
    /\ UNCHANGED cache
    /\ historyUnchanged

Next ==
    \/ \E a \in AuthorQueries, from \in SinceValues, to \in UntilValues,
          inc \in IncludeValues, exc \in ExcludeValues : Call(a, from, to, inc, exc)
    \/ LsFilesDone
    \/ \E code \in ExecErrors : LsFilesFail(code)
    \/ LogQueryDone
    \/ LogQueryFail
    \/ StartBatch
    \/ \E n \in 1..batchSize : LookupDone(n)
    \/ \E n \in 1..batchSize : LookupFail(n)
    \/ BatchDone
    \/ Pause
    \/ Returned

Spec == Init /\ [][Next]_vars

(***************************************************************************)
(* Notions the claims about getAuthorCommits are stated with.              *)
(***************************************************************************)
\* the log queries of the running call, in the order they were issued
logQueries == SelectSeq(issued, LAMBDA q : q.cmd = "log")

\* a query came back with something in it
nonEmpty(q) == q.result = "ok" /\ trim(q.out) # << >>

\* the hashes a text of `git log` lists
listedHashes(text) ==
    {parseLine(nonBlankLines(text)[n]).hash : n \in 1..Len(nonBlankLines(text))}

returnedHashes == {ret.commits[n].hash : n \in 1..Len(ret.commits)}

\* the patterns as the specification words them: the trimmed query taken
\* literally; its space-separated tokens, literal, with anything between
\* them; and that or the literal query
literal(str) == [n \in 1..Len(str) |-> IF str[n] \in RegexSpecial THEN esc(str[n]) ELSE raw(str[n])]
anything == <<raw("."), raw("*")>>
exactPattern(a) == literal(trim(a))
flexiblePattern(a) ==
    IF includes(trim(a), "@") THEN exactPattern(a)
    ELSE LET tokens == split(trim(a), " ") IN
         join([n \in 1..Len(tokens) |-> literal(tokens[n])], anything)
insensitivePattern(a) ==
    IF includes(trim(a), "@") THEN exactPattern(a)
    ELSE flexiblePattern(a) \o <<raw("|")>> \o exactPattern(a)
patternInOrder(a, k) ==
    CASE k = 1 -> exactPattern(a) [] k = 2 -> flexiblePattern(a) [] OTHER -> insensitivePattern(a)

Finished == pc = "done"
FinishedOk == pc = "done" /\ ret.kind = "ok"

(***************************************************************************)
(* C4: getAuthorCommits queries the author patterns in the fixed order     *)
(* exact, flexible-spacing, case-insensitive and stops at the first query  *)
(* whose output is non-empty: no later pattern is queried and the returned *)
(* commits are those of that query alone.  The query "J D" finds the       *)
(* commits authored "J  D <j@>" through the flexible pattern.              *)
(***************************************************************************)
C4_FirstNonEmptyPatternWins ==
    /\ Len(logQueries) <= 3
    /\ \A k \in 1..Len(logQueries) :
          /\ logQueries[k].author = patternInOrder(author, k)
          /\ k < Len(logQueries) => ~nonEmpty(logQueries[k])
    /\ FinishedOk =>
          /\ logQueries # << >>
          /\ IF nonEmpty(logQueries[Len(logQueries)])
             THEN /\ returnedHashes = listedHashes(logQueries[Len(logQueries)].out)
                  /\ Len(ret.commits) = Cardinality(returnedHashes)
             ELSE /\ ret.commits = << >>
                  /\ Len(logQueries) = 3
    /\ (FinishedOk /\ author = <<"J", " ", "D">> /\ since = << >>
          /\ includeDirs = << >> /\ excludeDirs = << >>
          /\ \A k \in 1..Len(logQueries) : logQueries[k].result = "ok")
       => /\ Len(logQueries) = 2
          /\ returnedHashes = {<<"a", "1">>, <<"b", "2">>}

\* "J D": the exact query came back empty, the flexible one found both commits
C4_Witness ==
    /\ FinishedOk
    /\ author = <<"J", " ", "D">>
    /\ Len(logQueries) = 2
    /\ logQueries[1].result = "ok" /\ ~nonEmpty(logQueries[1])
    /\ nonEmpty(logQueries[2])
    /\ Len(ret.commits) = 2

(***************************************************************************)
(* C5: a command failure while querying one author pattern is caught and   *)
(* the resolver goes on to the next pattern; only the failure of the final *)
(* pattern (or an empty result from all patterns) surfaces to the caller.  *)
(***************************************************************************)
C5_FinalPatternFailureSurfaces ==
    /\ \A k \in 1..Len(logQueries) :
          (logQueries[k].result = "fail" /\ k < 3 /\ Finished) => Len(logQueries) > k
    /\ (Finished /\ Len(logQueries) = 3 /\ logQueries[3].result = "fail")
          => ret.kind = "error"

(***************************************************************************)
(* C6: if fetching the subject/body of one commit fails, the call does not *)
(* fail: that commit is returned with empty subject and body, and every    *)
(* other commit of the batch is returned with its own fetched message.     *)
(***************************************************************************)
fetchFailed(h) ==
    \E k \in 1..Len(issued) :
        issued[k].cmd = "show" /\ issued[k].hash = h /\ issued[k].result = "fail"

\* what `git show -s --format=%s|%b` printed for the commit, cut at the first `|`
fetchedMessage(h) ==
    LET text == commitOf(h).subject \o <<"|">> \o commitOf(h).body \o <<"\n">>
        cut  == CHOOSE n \in 1..Len(text) : text[n] = "|" /\ \A m \in 1..(n - 1) : text[m] # "|"
    IN [subject |-> SubSeq(text, 1, cut - 1), body |-> trim(SubSeq(text, cut + 1, Len(text)))]

C6_FetchFailureIsPerCommit ==
    /\ (Finished /\ \E h \in Hashes : fetchFailed(h)) => ret.kind = "ok"
    /\ FinishedOk =>
          /\ Len(ret.commits) = Len(commits)
          /\ returnedHashes = listedHashes(output)
          /\ \A n \in 1..Len(ret.commits) :
                LET r == ret.commits[n] IN
                IF fetchFailed(r.hash)
                THEN r.subject = << >> /\ r.body = << >>
                ELSE r.subject = fetchedMessage(r.hash).subject
                     /\ r.body = fetchedMessage(r.hash).body

\* one commit of a batch lost its message, another of the same call has it
C6_Witness ==
    /\ FinishedOk
    /\ \E m, n \in 1..Len(ret.commits) :
          /\ fetchFailed(ret.commits[m].hash)
          /\ ret.commits[m].subject = << >>
          /\ ~fetchFailed(ret.commits[n].hash)
          /\ ret.commits[n].subject # << >>

(***************************************************************************)
(* C7: getAuthorCommits fails with INVALID_AUTHOR when the author query is *)
(* empty or only whitespace, and with INVALID_DATE_FORMAT when since or    *)
(* until contains one of < > | & ; $ (the author check comes first); in    *)
(* both cases no command has been executed and the cache is as it was.     *)
(***************************************************************************)
blank(str) == \A n \in 1..Len(str) : str[n] \in {" ", "\n"}
unsafe(str) == \E n \in 1..Len(str) : str[n] \in {"<", ">", "|", "&", ";", "$"}

C7_ValidationFailsBeforeAnyCommand ==
    Finished =>
        /\ blank(author) => ret = [kind |-> "error", code |-> "INVALID_AUTHOR"]
        /\ (~blank(author) /\ (unsafe(since) \/ unsafe(until)))
              => ret = [kind |-> "error", code |-> "INVALID_DATE_FORMAT"]
        /\ (blank(author) \/ unsafe(since) \/ unsafe(until))
              => /\ issued = << >>
                 /\ cache = cacheAtCall

\* an unsafe until, rejected with the filled cache untouched
C7_Witness ==
    /\ Finished
    /\ ~blank(author)
    /\ unsafe(until) /\ ~unsafe(since)
    /\ ret = [kind |-> "error", code |-> "INVALID_DATE_FORMAT"]
    /\ issued = << >>
    /\ cache # << >>

(***************************************************************************)
(* C8: the list getAuthorCommits returns is ordered by descending commit   *)
(* date, whatever the order of the lines of the log output and whatever    *)
(* order the lookups of a batch complete in.                               *)
(***************************************************************************)
\* the hour, in UTC, at which the commit was authored
utcHour(h) ==
    LET d == commitOf(h).date
        local == 10 * digit(d[1]) + digit(d[2])
    IN IF d[3] = "+" THEN local - digit(d[4]) ELSE local + digit(d[4])

C8_ReturnedNewestFirst ==
    FinishedOk =>
        \A m, n \in 1..Len(ret.commits) :
            m < n => utcHour(ret.commits[m].hash) >= utcHour(ret.commits[n].hash)

\* three commits, listed by git oldest first, returned newest first
C8_Witness ==
    /\ FinishedOk
    /\ Len(ret.commits) = 3
    /\ Len(commits) = 3
    /\ parseLine(commits[1]).hash = ret.commits[3].hash
    /\ parseLine(commits[3]).hash = ret.commits[1].hash
    /\ utcHour(ret.commits[1].hash) > utcHour(ret.commits[3].hash)

(***************************************************************************)
(* C9: when excludeDirs is given, the path scope passed to the history     *)
(* query is the set of all tracked paths with every path belonging to an   *)
(* excluded directory removed (the default-excluded patterns are excluded  *)
(* as well): no tracked path under an excluded directory is in the scope.  *)
(***************************************************************************)
underDirectory(file, dir) ==
    \/ file = dir
    \/ /\ Len(dir) < Len(file)
       /\ SubSeq(file, 1, Len(dir)) = dir
       /\ file[Len(dir) + 1] = "/"

excluded(file) == \E d \in 1..Len(excludeDirs) : underDirectory(file, excludeDirs[d])

C9_ScopeLeavesOutExcludedDirectories ==
    \A k \in 1..Len(logQueries) :
        (includeDirs = << >> /\ excludeDirs # << >>) =>
            /\ {logQueries[k].paths[n] : n \in 1..Len(logQueries[k].paths)}
                 = {TrackedPaths[n] : n \in {m \in 1..Len(TrackedPaths) : ~excluded(TrackedPaths[m])}}
            /\ Len(logQueries[k].excludes) = Len(EXCLUDED_PATTERNS)

(***************************************************************************)
(* getCommitDetails, and the two passes of AuthorCommand.execute that call *)
(* it: calculateVelocityMetrics, one commit after the other, and the       *)
(* commit log, in chunks of chunkSize concurrent writeCommitDetails.       *)
(***************************************************************************)
\* the characters of /^[0-9a-f]+$/i
HexChars ==
    {"0", "1", "2", "3", "4", "5", "6", "7", "8", "9", "a", "b", "c", "d", "e", "f",
     "A", "B", "C", "D", "E", "F"}

\* hash?.match(/^[0-9a-f]+$/i)
validHash(h) == h # << >> /\ \A n \in 1..Len(h) : h[n] \in HexChars

\* `details_${hash}`
detailsKey(h) == <<"d", "e", "t", "a", "i", "l", "s", "_">> \o h

\* the text of `git show <hash> --stat --pretty=format:`
statOutput(h) == commitOf(h).stat

\* a lookup that returns the details without storing them
cacheDetails_skip(c, cap, h, details) == c

\* commitCache.set(`details_${hash}`, details)
cacheDetails(c, cap, h, details) == set(c, cap, detailsKey(h), details)

\* getCommitDetails(h) up to its first await, made in pass p: st holds the
\* cache, the calls awaited, and the history of requests and cache touches
getCommitDetails(st, h, p) ==
    LET key == detailsKey(h)
        got == get(st.cache, key)
        request == [hash |-> h, pass |-> p, started |-> Len(st.touchLog)]
    IN
    IF ~validHash(h)
    THEN [st EXCEPT
            !.calls = Append(@, [req |-> Len(st.requests) + 1, hash |-> h, state |-> "rejected"]),
            !.requests = Append(@, request @@ [source |-> "none", state |-> "fail",
                                               text |-> << >>, finished |-> Len(st.touchLog)])]
    ELSE IF has(st.cache, key)
    THEN [st EXCEPT
            !.cache = got.cache,
            !.calls = Append(@, [req |-> Len(st.requests) + 1, hash |-> h, state |-> "cached"]),
            !.requests = Append(@, request @@ [source |-> "cache", state |-> "ok",
                                               text |-> got.value,
                                               finished |-> Len(st.touchLog) + 1]),
            !.touchLog = Append(@, key)]
    ELSE [st EXCEPT
            !.calls = Append(@, [req |-> Len(st.requests) + 1, hash |-> h, state |-> "pending"]),
            !.requests = Append(@, request @@ [source |-> "command", state |-> "pending",
                                               text |-> << >>, finished |-> 0])]

\* chunk.map(commit => this.writeCommitDetails(stream, commit)): every call
\* runs up to its first await, in chunk order
RECURSIVE startDetails(_, _, _)
startDetails(hashes, st, p) ==
    IF hashes = << >> THEN st
    ELSE startDetails(Tail(hashes), getCommitDetails(st, Head(hashes), p), p)

\* the state the calls of a pass start from
callState ==
    [cache |-> cache, calls |-> << >>, requests |-> requests, touchLog |-> touchLog]

\* commits.slice(i, Math.min(i + chunkSize, commits.length)), by hash
chunkOf(xs, start) ==
    [n \in 1..((IF start + chunkSize < Len(xs) THEN start + chunkSize ELSE Len(xs)) - start) |->
        xs[start + n].hash]

\* the hashes of the calls that returned the cached details
cachedHashes(calls) ==
    LET hits == SelectSeq(calls, LAMBDA call : call.state = "cached") IN
    [n \in 1..Len(hits) |-> hits[n].hash]

\* the cache getAuthorCommits leaves after fetching the messages of q in order
RECURSIVE messagesCached(_)
messagesCached(q) ==
    IF q = << >> THEN << >>
    ELSE set(messagesCached(SubSeq(q, 1, Len(q) - 1)), CommitCacheSize,
             q[Len(q)].hash, parseMessage(showOutput(q[Len(q)].hash)))

\* the entry getAuthorCommits returns for a commit, fetched or not
resolvedEntry(c, fetched) ==
    IF fetched
    THEN [hash |-> c.hash, date |-> c.date,
          subject |-> parseMessage(showOutput(c.hash))[1],
          body |-> parseMessage(showOutput(c.hash))[2]]
    ELSE [hash |-> c.hash, date |-> c.date, subject |-> << >>, body |-> << >>]

pipelineUnchanged == UNCHANGED <<maxSize, touch, promoted, clock, lastOp, resolverVars, analysisVars>>

(***************************************************************************)
(* SpecPipeline: execute, from the return of getAuthorCommits with a       *)
(* non-empty list: the metrics pass unless skipMetrics, then the log pass. *)
(***************************************************************************)
InitPipeline ==
    /\ ResolverIdle
    /\ AnalysisOff
    /\ maxSize = CommitCacheSize
    /\ touch = [k \in Keys |-> 0]
    /\ promoted = {}
    /\ clock = 0
    /\ lastOp = NoOp
    /\ \E S \in SUBSET Commits \ {{}} : \E q \in orders(S) :
       \E F \in SUBSET S : \E skipMetrics \in BOOLEAN :
           /\ cache = messagesCached(SelectSeq(q, LAMBDA c : c \in F))
           /\ commitList = sortByDate([n \in 1..Len(q) |-> resolvedEntry(q[n], q[n] \in F)])
           /\ pass = IF skipMetrics THEN "log" ELSE "metrics"
    /\ position = 0
    /\ detailCalls = << >>
    /\ requests = << >>
    /\ written = << >>
    /\ touchLog = << >>

\* calculateVelocityMetrics: const details = await getCommitDetails(commit.hash)
MetricsCall ==
    /\ pass = "metrics"
    /\ detailCalls = << >>
    /\ position < Len(commitList)
    /\ LET st == getCommitDetails(callState, commitList[position + 1].hash, "metrics") IN
         /\ cache' = st.cache
         /\ detailCalls' = st.calls
         /\ requests' = st.requests
         /\ touchLog' = st.touchLog
    /\ UNCHANGED <<pass, commitList, position, written>>
    /\ pipelineUnchanged

\* the awaited details arrive: the loop goes on to the next commit, and after
\* the last one execute goes on to the log pass; a rejection ends execute
MetricsNext ==
    /\ pass = "metrics"
    /\ Len(detailCalls) = 1
    /\ detailCalls[1].state # "pending"
    /\ detailCalls' = << >>
    /\ IF detailCalls[1].state = "rejected"
       THEN pass' = "failed" /\ UNCHANGED position
       ELSE IF position + 1 < Len(commitList)
       THEN position' = position + 1 /\ UNCHANGED pass
       ELSE pass' = "log" /\ position' = 0
    /\ UNCHANGED <<cache, commitList, requests, written, touchLog>>
    /\ pipelineUnchanged

\* one turn of the chunk loop up to await Promise.all(chunkPromises); the
\* calls served from the cache write their entries before any command ends
StartChunk ==
    /\ pass = "log"
    /\ detailCalls = << >>
    /\ position < Len(commitList)
    /\ LET st == startDetails(chunkOf(commitList, position), callState, "log") IN
         /\ cache' = st.cache
         /\ detailCalls' = st.calls
         /\ requests' = st.requests
         /\ touchLog' = st.touchLog
         /\ written' = written \o cachedHashes(st.calls)
    /\ UNCHANGED <<pass, commitList, position>>
    /\ pipelineUnchanged

\* `git show --stat` of the n-th awaited call resolves
DetailsDone(n) ==
    /\ n \in 1..Len(detailCalls)
    /\ detailCalls[n].state = "pending"
    /\ LET h == detailCalls[n].hash
           r == detailCalls[n].req
           details == statOutput(h)
           found == trim(details) # << >>
       IN
         /\ cache' = IF found THEN cacheDetails(cache, maxSize, h, details) ELSE cache
         /\ touchLog' = IF found THEN Append(touchLog, detailsKey(h)) ELSE touchLog
         /\ requests' = [requests EXCEPT ![r] =
                IF found
                THEN [@ EXCEPT !.state = "ok", !.text = details, !.finished = Len(touchLog) + 1]
                ELSE [@ EXCEPT !.state = "fail", !.finished = Len(touchLog)]]
         /\ detailCalls' = [detailCalls EXCEPT ![n].state = IF found THEN "resolved" ELSE "rejected"]
         /\ written' = IF found /\ requests[r].pass = "log" THEN Append(written, h) ELSE written
    /\ UNCHANGED <<pass, commitList, position>>
    /\ pipelineUnchanged

\* ... or rejects
DetailsFail(n) ==
    /\ n \in 1..Len(detailCalls)
    /\ detailCalls[n].state = "pending"
    /\ requests' = [requests EXCEPT ![detailCalls[n].req] =
           [@ EXCEPT !.state = "fail", !.finished = Len(touchLog)]]
    /\ detailCalls' = [detailCalls EXCEPT ![n].state = "rejected"]
    /\ UNCHANGED <<cache, pass, commitList, position, written, touchLog>>
    /\ pipelineUnchanged

\* Promise.all resolves: the next chunk, or the end of the log
ChunkDone ==
    /\ pass = "log"
    /\ detailCalls # << >>
    /\ \A n \in 1..Len(detailCalls) : detailCalls[n].state \in {"cached", "resolved"}
    /\ detailCalls' = << >>
    /\ position' = position + chunkSize
    /\ pass' = IF position + chunkSize < Len(commitList) THEN "log" ELSE "finished"
    /\ UNCHANGED <<cache, commitList, requests, written, touchLog>>
    /\ pipelineUnchanged

\* Promise.all rejects with the first rejection: execute throws, the
\* commands still running are not stopped
ChunkFailed ==
    /\ pass = "log"
    /\ \E n \in 1..Len(detailCalls) : detailCalls[n].state = "rejected"
    /\ pass' = "failed"
    /\ UNCHANGED <<cache, commitList, position, detailCalls, requests, written, touchLog>>
    /\ pipelineUnchanged

NextPipeline ==
    \/ MetricsCall
    \/ MetricsNext
    \/ StartChunk
    \/ \E n \in 1..chunkSize : DetailsDone(n)
    \/ \E n \in 1..chunkSize : DetailsFail(n)
    \/ ChunkDone
    \/ ChunkFailed

SpecPipeline == InitPipeline /\ [][NextPipeline]_vars

(***************************************************************************)
(* C10 (as stated): a request for the stat detail of a commit made after   *)
(* a successful request for the same hash returns the same text from the   *)
(* cache, and no further command is issued for that commit.                *)
(***************************************************************************)
\* request j repeats the successful request i
repeats(i, j) ==
    /\ i < j
    /\ requests[i].hash = requests[j].hash
    /\ requests[i].state = "ok"

\* request j was answered from the cache with the text request i returned
servedFromCache(i, j) ==
    /\ requests[j].source = "cache"
    /\ requests[j].state = "ok"
    /\ requests[j].text = requests[i].text

C10_RepeatedRequestServedFromCache ==
    \A i, j \in 1..Len(requests) : repeats(i, j) => servedFromCache(i, j)

(***************************************************************************)
(* C10 (amended): a request for the stat detail of a commit made after a   *)
(* successful request for the same hash returns the same text from the     *)
(* cache and issues no command, provided that fewer distinct other keys    *)
(* than the capacity of the cache were stored or read with a hit between   *)
(* the two requests; otherwise the entry has been evicted as the least     *)
(* recently used one and the command is issued again.                      *)
(***************************************************************************)
\* the other keys stored or hit after request i ended and before j began
touchedBetween(i, j) ==
    {touchLog[t] : t \in (requests[i].finished + 1)..requests[j].started}
        \ {detailsKey(requests[i].hash)}

C10_RepeatedRequestServedUnlessEvicted ==
    \A i, j \in 1..Len(requests) :
        (repeats(i, j) /\ Cardinality(touchedBetween(i, j)) < maxSize)
            => servedFromCache(i, j)

\* the log pass got from the cache what the metrics pass had fetched with a
\* command, after another key was stored in between
C10_Witness ==
    \E i, j \in 1..Len(requests) :
        /\ repeats(i, j)
        /\ requests[i].pass = "metrics" /\ requests[i].source = "command"
        /\ requests[j].pass = "log"
        /\ touchedBetween(i, j) # {}
        /\ Cardinality(touchedBetween(i, j)) < maxSize
        /\ servedFromCache(i, j)

(***************************************************************************)
(* The diff change-set reconstructor: categorizeFileChanges of             *)
(* GitChangeService (buffered and streaming) and of ReviewCommand          *)
(* (streaming only), with processDiffLine, addFileChange, parseFileStatus. *)
(***************************************************************************)
\* the safety valve of processDiffLine (1000 in the source), scaled to the diffs
maxHunkLines == 3

ChangeTypes == {"added", "modified", "deleted", "renamed"}

\* String.prototype.startsWith
startsWith(s, prefix) ==
    Len(s) >= Len(prefix) /\ SubSeq(s, 1, Len(prefix)) = prefix

\* String.prototype.includes for a string
includesText(s, sub) ==
    \E i \in 1..(Len(s) - Len(sub) + 1) : SubSeq(s, i, i + Len(sub) - 1) = sub

\* \s of a regular expression, on the characters of a diff
isWhite(ch) == ch \in {" ", "\t", "\n"}

\* String.prototype.startsWith(sub, i - 1): sub stands at position i of s
standsAt(s, i, sub) ==
    i >= 1 /\ i + Len(sub) - 1 <= Len(s) /\ SubSeq(s, i, i + Len(sub) - 1) = sub

\* diffLine.match(/a\/(.+?)\s+b\//)?.[1]: the leftmost match, its group the
\* shortest; << >> when there is no match (undefined)
oldFileOf(diffLine) ==
    LET n == Len(diffLine)
        \* a match that starts at i and whose group ends before j
        fits(i, j) ==
            /\ standsAt(diffLine, i, <<"a", "/">>)
            /\ j >= i + 3
            /\ \E k \in (j + 1)..(n - 1) :
                  /\ \A m \in j..(k - 1) : isWhite(diffLine[m])
                  /\ standsAt(diffLine, k, <<"b", "/">>)
        starts == {i \in 1..n : \E j \in 1..n : fits(i, j)}
    IN  IF starts = {} THEN << >>
        ELSE LET i == CHOOSE a \in starts : \A b \in starts : a <= b
                 j == CHOOSE a \in {b \in 1..n : fits(i, b)} :
                          \A b \in {c \in 1..n : fits(i, c)} : a <= b
             IN SubSeq(diffLine, i + 2, j - 1)

\* diffLine.match(/b\/(.+?)$/)?.[1]
newFileOf(diffLine) ==
    LET n == Len(diffLine)
        starts == {i \in 1..(n - 2) : SubSeq(diffLine, i, i + 1) = <<"b", "/">>}
    IN  IF starts = {} THEN << >>
        ELSE LET i == CHOOSE a \in starts : \A b \in starts : a <= b
             IN SubSeq(diffLine, i + 2, n)

\* parseFileStatus(diffLine, fullDiff)
parseFileStatus(diffLine, text) ==
    LET oldFile == oldFileOf(diffLine)
        newFile == newFileOf(diffLine)
    IN  IF includesText(text, <<"\n", "n", "e", "w", " ", "f", "i", "l", "e", " ", "m", "o", "d", "e", " ">>) THEN [status |-> "added", file |-> newFile]
        ELSE IF includesText(text, <<"\n", "d", "e", "l", "e", "t", "e", "d", " ", "f", "i", "l", "e", " ", "m", "o", "d", "e", " ">>) THEN [status |-> "deleted", file |-> oldFile]
        ELSE IF oldFile # newFile /\ oldFile # << >> /\ newFile # << >>
        THEN [status |-> "renamed", file |-> oldFile \o <<" ", "→", " ">> \o newFile]
        ELSE [status |-> "modified", file |-> newFile]

\* the Map of one change type with the hunks added under the file
withHunks(entries, file, hunks) ==
    IF \E n \in 1..Len(entries) : entries[n].file = file
    THEN [n \in 1..Len(entries) |->
            IF entries[n].file = file
            THEN [entries[n] EXCEPT !.hunks = @ \o hunks]
            ELSE entries[n]]
    ELSE Append(entries, [file |-> file, hunks |-> hunks])

\* addFileChange(changes, currentType, currentFile, [currentHunk]) on the
\* scanner state st; changes[type] of no change type is undefined: TypeError
addFileChange(st) ==
    IF st.currentType \in ChangeTypes
    THEN [st EXCEPT !.changes[st.currentType] = withHunks(@, st.currentFile, <<st.currentHunk>>)]
    ELSE [st EXCEPT !.thrown = TRUE]

\* the scanner state of categorizeFileChanges before the first line
scannerStart ==
    [changes |-> [t \in ChangeTypes |-> << >>], currentFile |-> << >>, currentType |-> null,
     currentHunk |-> << >>, isInDiff |-> FALSE, thrown |-> FALSE, headerLog |-> << >>]

\* a scanner that takes the new header before it flushes the pending hunk
scanLine_flushAfter(st, line, text) ==
    IF startsWith(line, <<"d", "i", "f", "f", " ", "-", "-", "g", "i", "t">>)
    THEN LET parsed == parseFileStatus(line, text)
             moved == [st EXCEPT !.currentFile = parsed.file, !.currentType = parsed.status,
                                 !.headerLog = Append(@, parsed)]
             flushed == IF st.currentFile # << >> /\ Len(st.currentHunk) > 0
                        THEN addFileChange(moved) ELSE moved
         IN IF flushed.thrown THEN flushed
            ELSE [flushed EXCEPT !.currentHunk = << >>, !.isInDiff = FALSE]
    ELSE IF startsWith(line, <<"@", "@", " ">>)
    THEN LET flushed == IF Len(st.currentHunk) > 0 THEN addFileChange(st) ELSE st
         IN IF flushed.thrown THEN flushed
            ELSE [flushed EXCEPT !.currentHunk = <<line>>, !.isInDiff = TRUE]
    ELSE IF st.isInDiff /\ (startsWith(line, <<"+">>) \/ startsWith(line, <<"-">>)
                              \/ startsWith(line, <<" ">>))
    THEN [st EXCEPT !.currentHunk = Append(@, line)]
    ELSE st

\* the three branches of processDiffLine; text is what parseFileStatus gets
scanLine(st, line, text) ==
    IF startsWith(line, <<"d", "i", "f", "f", " ", "-", "-", "g", "i", "t">>)
    THEN LET flushed == IF st.currentFile # << >> /\ Len(st.currentHunk) > 0
                        THEN addFileChange(st) ELSE st
             parsed == parseFileStatus(line, text)
         IN IF flushed.thrown THEN flushed
            ELSE [flushed EXCEPT !.currentFile = parsed.file, !.currentType = parsed.status,
                                 !.currentHunk = << >>, !.isInDiff = FALSE,
                                 !.headerLog = Append(@, parsed)]
    ELSE IF startsWith(line, <<"@", "@", " ">>)
    THEN LET flushed == IF Len(st.currentHunk) > 0 THEN addFileChange(st) ELSE st
         IN IF flushed.thrown THEN flushed
            ELSE [flushed EXCEPT !.currentHunk = <<line>>, !.isInDiff = TRUE]
    ELSE IF st.isInDiff /\ (startsWith(line, <<"+">>) \/ startsWith(line, <<"-">>)
                              \/ startsWith(line, <<" ">>))
    THEN [st EXCEPT !.currentHunk = Append(@, line)]
    ELSE st

\* if (currentHunk.length > 1000) { addFileChange(...); currentHunk = []; }
flushLongHunk(st) ==
    IF ~st.thrown /\ Len(st.currentHunk) > maxHunkLines
    THEN LET flushed == addFileChange(st)
         IN IF flushed.thrown THEN flushed ELSE [flushed EXCEPT !.currentHunk = << >>]
    ELSE st

\* processDiffLine(line) of GitChangeService; ReviewCommand has the same
\* branches inline, without the periodic flush
processDiffLine(st, line, text, impl) ==
    IF st.thrown THEN st
    ELSE IF impl = "service" THEN flushLongHunk(scanLine(st, line, text))
    ELSE scanLine(st, line, text)

\* for (const line of lines) processDiffLine(line)
RECURSIVE processLines(_, _, _, _)
processLines(st, lines, text, impl) ==
    IF lines = << >> THEN st
    ELSE processLines(processDiffLine(st, Head(lines), text, impl), Tail(lines), text, impl)

\* if (currentFile && currentHunk.length > 0) addFileChange(...)
flushPending(st) ==
    IF ~st.thrown /\ st.currentFile # << >> /\ Len(st.currentHunk) > 0
    THEN addFileChange(st) ELSE st

\* the scanner state held in the variables
scanner ==
    [changes |-> changes, currentFile |-> currentFile, currentType |-> currentType,
     currentHunk |-> currentHunk, isInDiff |-> isInDiff, thrown |-> FALSE,
     headerLog |-> headerLog]

\* the scanner state st written back to the variables
scannerBecomes(st) ==
    /\ changes' = st.changes
    /\ currentFile' = st.currentFile
    /\ currentType' = st.currentType
    /\ currentHunk' = st.currentHunk
    /\ isInDiff' = st.isInDiff
    /\ headerLog' = st.headerLog

(***************************************************************************)
(* SpecDiff: one call of categorizeFileChanges on the diff of a commit,    *)
(* buffered or streamed in chunks cut anywhere; the command or the stream  *)
(* may fail.                                                               *)
(***************************************************************************)
\* a new file and then a modified file
DiffAddedThenModified ==
    <<"d", "i", "f", "f", " ", "-", "-", "g", "i", "t", " ", "a", "/", "n", " ", "b", "/", "n", "\n", "n", "e", "w", " ", "f", "i", "l", "e", " ", "m", "o", "d", "e", " ", "1", "\n", "@", "@", " ", "1", " ", "@", "@", "\n", "+", "a", "\n", "d", "i", "f", "f", " ", "-", "-", "g", "i", "t", " ", "a", "/", "m", " ", "b", "/", "m", "\n", "i", "n", "d", "e", "x", " ", "1", "\n", "@", "@", " ", "2", " ", "@", "@", "\n", "-", "b", "\n", "+", "c", "\n">>

\* a modified file and then a new file
DiffModifiedThenAdded ==
    <<"d", "i", "f", "f", " ", "-", "-", "g", "i", "t", " ", "a", "/", "m", " ", "b", "/", "m", "\n", "@", "@", " ", "2", " ", "@", "@", "\n", "-", "b", "\n", "d", "i", "f", "f", " ", "-", "-", "g", "i", "t", " ", "a", "/", "n", " ", "b", "/", "n", "\n", "n", "e", "w", " ", "f", "i", "l", "e", " ", "m", "o", "d", "e", " ", "1", "\n", "@", "@", " ", "1", " ", "@", "@", "\n", "+", "a">>

\* one modified file with two hunks, the second longer than the safety valve
DiffTwoHunks ==
    <<"d", "i", "f", "f", " ", "-", "-", "g", "i", "t", " ", "a", "/", "m", " ", "b", "/", "m", "\n", "@", "@", " ", "1", " ", "@", "@", "\n", " ", "a", "\n", "@", "@", " ", "2", " ", "@", "@", "\n", "+", "a", "\n", "+", "b", "\n", "-", "c", "\n", " ", "d", "\n">>

\* a renamed file and a deleted file
DiffRenamedThenDeleted ==
    <<"d", "i", "f", "f", " ", "-", "-", "g", "i", "t", " ", "a", "/", "o", " ", "b", "/", "p", "\n", "@", "@", " ", "1", " ", "@", "@", "\n", " ", "a", "\n", "d", "i", "f", "f", " ", "-", "-", "g", "i", "t", " ", "a", "/", "m", " ", "b", "/", "m", "\n", "d", "e", "l", "e", "t", "e", "d", " ", "f", "i", "l", "e", " ", "m", "o", "d", "e", " ", "1", "\n", "@", "@", " ", "1", " ", "@", "@", "\n", "-", "a", "\n">>

DiffTexts == {DiffAddedThenModified, DiffModifiedThenAdded, DiffTwoHunks, DiffRenamedThenDeleted}

\* the calls: GitChangeService buffered or streaming, or ReviewCommand, on a
\* commit with one of the diffs
Reconstructors ==
    { [impl |-> c[1], stream |-> c[2], diff |-> text] :
        c \in {<<"service", FALSE>>, <<"service", TRUE>>, <<"review", TRUE>>},
        text \in DiffTexts }

\* the errors a child process stream emits
StreamErrors == {"EPIPE"}

diffUnchanged == UNCHANGED <<cacheVars, resolverVars, pipelineVars, typeVars, riskVars, velocityVars, trendVars, cliVars, reviewVars>>

InitDiff ==
    /\ ReviewOff
    /\ CliOff
    /\ TrendsOff
    /\ VelocityOff
    /\ RiskOff
    /\ ResolverIdle
    /\ PipelineOff
    /\ TypesOff
    /\ maxSize = CommitCacheSize
    /\ cache = << >>
    /\ touch = [k \in Keys |-> 0]
    /\ promoted = {}
    /\ clock = 0
    /\ lastOp = NoOp
    /\ reconstructor \in Reconstructors
    /\ diffStream = reconstructor.diff
    /\ buffer = << >>
    /\ fullDiff = << >>
    /\ currentFile = scannerStart.currentFile
    /\ currentType = scannerStart.currentType
    /\ currentHunk = scannerStart.currentHunk
    /\ isInDiff = scannerStart.isInDiff
    /\ headerLog = scannerStart.headerLog
    /\ changes = scannerStart.changes
    /\ settlement = [kind |-> "pending"]

\* how the call ends once the scanner state st is final
settled_(st) ==
    IF st.thrown THEN [kind |-> "rejected", error |-> [structured |-> FALSE, code |-> "TypeError"]]
    ELSE [kind |-> "resolved", changes |-> st.changes]

\* buffered: const diff = await this.getCommitDiff(commit.hash) ... return changes
CategorizeBuffered ==
    /\ settlement.kind = "pending"
    /\ ~reconstructor.stream
    /\ LET st == flushPending(processLines(scanner, split(diffStream, "\n"), diffStream,
                                           reconstructor.impl))
       IN /\ scannerBecomes(st)
          /\ settlement' = settled_(st)
    /\ fullDiff' = diffStream
    /\ diffStream' = << >>
    /\ UNCHANGED <<reconstructor, buffer>>
    /\ diffUnchanged

\* buffered: the diff command fails
BufferedFail(code) ==
    /\ settlement.kind = "pending"
    /\ ~reconstructor.stream
    /\ settlement' = [kind |-> "rejected", error |-> [structured |-> TRUE, code |-> code]]
    /\ diffStream' = << >>
    /\ UNCHANGED <<reconstructor, buffer, fullDiff, currentFile, currentType, currentHunk,
                   isInDiff, changes, headerLog>>
    /\ diffUnchanged

\* diffStream.on('data', chunk => ...) for the next k characters
StreamData(k) ==
    /\ settlement.kind = "pending"
    /\ reconstructor.stream
    /\ k \in 1..Len(diffStream)
    /\ LET chunk == SubSeq(diffStream, 1, k)
           lines == split(buffer \o chunk, "\n")
           whole == SubSeq(lines, 1, Len(lines) - 1)
           rest  == lines[Len(lines)]
           text  == IF reconstructor.impl = "service" THEN fullDiff \o chunk ELSE rest
           st    == processLines(scanner, whole, text, reconstructor.impl)
       IN /\ buffer' = rest
          /\ fullDiff' = IF reconstructor.impl = "service" THEN fullDiff \o chunk ELSE fullDiff
          /\ scannerBecomes(st)
          /\ settlement' = IF st.thrown THEN [kind |-> "crashed"] ELSE settlement
    /\ diffStream' = SubSeq(diffStream, k + 1, Len(diffStream))
    /\ UNCHANGED reconstructor
    /\ diffUnchanged

\* diffStream.on('end', ...)
StreamEnd ==
    /\ settlement.kind = "pending"
    /\ reconstructor.stream
    /\ diffStream = << >>
    /\ LET text == IF reconstructor.impl = "service" THEN fullDiff ELSE buffer
           last == IF buffer # << >>
                   THEN processDiffLine(scanner, buffer, text, reconstructor.impl)
                   ELSE scanner
           st == flushPending(last)
       IN /\ scannerBecomes(st)
          /\ settlement' = IF st.thrown THEN [kind |-> "crashed"] ELSE settled_(st)
    /\ UNCHANGED <<reconstructor, diffStream, buffer, fullDiff>>
    /\ diffUnchanged

\* diffStream.on('error', ...): GitChangeService passes reject itself,
\* ReviewCommand rejects with a GitLogError DIFF_STREAM_ERROR
rejection(impl, err) ==
    IF impl = "service" THEN [structured |-> FALSE, code |-> err]
    ELSE [structured |-> TRUE, code |-> "DIFF_STREAM_ERROR"]

\* the stream emits 'error' and is destroyed
StreamError(err) ==
    /\ settlement.kind = "pending"
    /\ reconstructor.stream
    /\ settlement' = [kind |-> "rejected", error |-> rejection(reconstructor.impl, err)]
    /\ diffStream' = << >>
    /\ UNCHANGED <<reconstructor, buffer, fullDiff, currentFile, currentType, currentHunk,
                   isInDiff, changes, headerLog>>
    /\ diffUnchanged

NextDiff ==
    \/ CategorizeBuffered
    \/ \E code \in ExecErrors : BufferedFail(code)
    \/ \E k \in 1..Len(diffStream) : StreamData(k)
    \/ StreamEnd
    \/ \E err \in StreamErrors : StreamError(err)

SpecDiff == InitDiff /\ [][NextDiff]_vars

(***************************************************************************)
(* C11: each file of a multi-file diff is classified from its own header:  *)
(* a diff of two files, one with `new file mode` and one ordinary          *)
(* modification, gives a ChangeSet with exactly one entry in added and     *)
(* exactly one in modified, each holding exactly one hunk.                 *)
(***************************************************************************)
\* the call has returned the ChangeSet of a diff of a new and a modified file
ResolvedNewAndModified ==
    /\ settlement.kind = "resolved"
    /\ reconstructor.diff \in {DiffAddedThenModified, DiffModifiedThenAdded}

C11_EachFileClassifiedFromOwnHeader ==
    ResolvedNewAndModified =>
        LET result == settlement.changes IN
        /\ Len(result["added"]) = 1
        /\ Len(result["modified"]) = 1
        /\ result["added"][1].file = <<"n">> /\ Len(result["added"][1].hunks) = 1
        /\ result["modified"][1].file = <<"m">> /\ Len(result["modified"][1].hunks) = 1
        /\ result["deleted"] = << >> /\ result["renamed"] = << >>

(***************************************************************************)
(* C12: in streaming mode, when the diff stream emits an error, the call   *)
(* fails with the structured error DiffStreamError, and it does not        *)
(* resolve with a partial ChangeSet.                                       *)
(***************************************************************************)
C12_StreamErrorIsDiffStreamError ==
    reconstructor.stream =>
        /\ settlement.kind = "rejected" =>
              settlement.error.structured /\ settlement.error.code = "DIFF_STREAM_ERROR"
        /\ settlement.kind = "resolved" => diffStream = << >>

(***************************************************************************)
(* The commit type classifier (commitTypeService): COMMIT_TYPES,           *)
(* categorizeCommit and calculateTypeMetrics.                              *)
(***************************************************************************)
\* the keys of COMMIT_TYPES, in declaration order
TypeTable == <<"FEATURE", "BUG_FIX", "REFACTOR", "DOCS", "TEST", "CONFIG">>

UpperCase ==
    <<"A", "B", "C", "D", "E", "F", "G", "H", "I", "J", "K", "L", "M",
      "N", "O", "P", "Q", "R", "S", "T", "U", "V", "W", "X", "Y", "Z">>
LowerCase ==
    <<"a", "b", "c", "d", "e", "f", "g", "h", "i", "j", "k", "l", "m",
      "n", "o", "p", "q", "r", "s", "t", "u", "v", "w", "x", "y", "z">>

\* String.prototype.toLowerCase
toLowerCase(s) ==
    [n \in 1..Len(s) |->
        IF \E u \in 1..26 : UpperCase[u] = s[n]
        THEN LowerCase[CHOOSE u \in 1..26 : UpperCase[u] = s[n]]
        ELSE s[n]]

\* String.prototype.endsWith
endsWith(s, suffix) ==
    Len(s) >= Len(suffix) /\ SubSeq(s, Len(s) - Len(suffix) + 1, Len(s)) = suffix

\* COMMIT_TYPES[type].patterns, each /^<prefix>/
messagePrefixes(type) ==
    CASE type = "FEATURE"  -> {<<"f", "e", "a", "t", ":">>, <<"a", "d", "d", ":">>, <<"n", "e", "w", ":">>}
      [] type = "BUG_FIX"  -> {<<"f", "i", "x", ":">>, <<"b", "u", "g", ":">>, <<"i", "s", "s", "u", "e", ":">>, <<"h", "o", "t", "f", "i", "x", ":">>}
      [] type = "REFACTOR" -> {<<"r", "e", "f", "a", "c", "t", "o", "r", ":">>, <<"c", "l", "e", "a", "n", ":">>, <<"r", "e", "s", "t", "r", "u", "c", "t", "u", "r", "e", ":">>, <<"i", "m", "p", "r", "o", "v", "e", ":">>}
      [] type = "DOCS"     -> {<<"d", "o", "c", "s", ":">>, <<"d", "o", "c", "u", "m", "e", "n", "t", "a", "t", "i", "o", "n", ":">>}
      [] type = "TEST"     -> {<<"t", "e", "s", "t", ":">>, <<"t", "e", "s", "t", "i", "n", "g", ":">>}
      [] type = "CONFIG"   -> {<<"c", "o", "n", "f", "i", "g", ":">>, <<"c", "h", "o", "r", "e", ":">>, <<"b", "u", "i", "l", "d", ":">>}

\* /^(?!.*test).+\.(js|ts|jsx|tsx)$/
sourceFile(file) ==
    /\ ~includesText(file, <<"t", "e", "s", "t">>)
    /\ \E ext \in {<<".", "j", "s">>, <<".", "t", "s">>, <<".", "j", "s", "x">>, <<".", "t", "s", "x">>} :
          endsWith(file, ext) /\ Len(file) > Len(ext)

\* /spec\.(js|ts)$/
specFile(file) == endsWith(file, <<"s", "p", "e", "c", ".", "j", "s">>) \/ endsWith(file, <<"s", "p", "e", "c", ".", "t", "s">>)

\* some pattern of COMMIT_TYPES[type].filePatterns matches the file
fileMatches(type, file) ==
    CASE type \in {"FEATURE", "BUG_FIX", "REFACTOR"} -> sourceFile(file)
      [] type = "DOCS" ->
            \/ endsWith(file, <<".", "m", "d">>)
            \/ includesText(file, <<"d", "o", "c", "s", "/">>)
            \/ includesText(file, <<"R", "E", "A", "D", "M", "E">>)
      [] type = "TEST" -> includesText(file, <<"t", "e", "s", "t">>) \/ specFile(file)
      [] type = "CONFIG" ->
            \E ext \in {<<".", "j", "s", "o", "n">>, <<".", "y", "m", "l">>, <<".", "y", "a", "m", "l">>, <<".", "c", "o", "n", "f", "i", "g", ".", "j", "s">>} : endsWith(file, ext)

\* matchesPatterns(text, patterns)
matchesPatterns(text, type) ==
    /\ text # << >>
    /\ \E prefix \in messagePrefixes(type) : startsWith(trim(toLowerCase(text)), prefix)

\* matchesFilePatterns(files, filePatterns)
matchesFilePatterns(files, type) ==
    \E n \in 1..Len(files) : fileMatches(type, files[n])

\* files.some(file => /test|spec\.(js|ts)$/.test(file))
touchesTestFile(files) ==
    \E n \in 1..Len(files) : includesText(files[n], <<"t", "e", "s", "t">>) \/ specFile(files[n])

\* the types the forEach over COMMIT_TYPES adds for the message
messageTypes(commit) ==
    SelectSeq(TypeTable, LAMBDA type : matchesPatterns(commit.message, type))

\* a Set with one more member added
added(types, type) ==
    IF \E n \in 1..Len(types) : types[n] = type THEN types ELSE Append(types, type)

\* the first type of the table whose file patterns match, if there is one
fileFallback(types, files) ==
    LET hits == SelectSeq(TypeTable, LAMBDA type : matchesFilePatterns(files, type))
    IN IF hits = << >> THEN types ELSE added(types, hits[1])

\* categorizeCommit(commit): Array.from(types)
categorizeCommit(commit) ==
    LET fromMessage == messageTypes(commit)
        types == IF touchesTestFile(commit.files) THEN added(fromMessage, "TEST")
                 ELSE fromMessage
    IN IF Len(types) = 0 THEN fileFallback(types, commit.files) ELSE types

\* typeCounts[type] = (typeCounts[type] || 0) + 1
counted(counts, type) ==
    IF \E n \in 1..Len(counts) : counts[n].type = type
    THEN [n \in 1..Len(counts) |->
            IF counts[n].type = type THEN [counts[n] EXCEPT !.count = @ + 1] ELSE counts[n]]
    ELSE Append(counts, [type |-> type, count |-> 1])

\* types.forEach(type => ...) on typeCounts
RECURSIVE countedAll(_, _)
countedAll(counts, types) ==
    IF types = << >> THEN counts
    ELSE countedAll(counted(counts, Head(types)), Tail(types))

\* Object.values(typeCounts).reduce((sum, count) => sum + count, 0)
RECURSIVE totalOf(_)
totalOf(counts) ==
    IF counts = << >> THEN 0 ELSE Head(counts).count + totalOf(Tail(counts))

\* ((count / total) * 100).toFixed(2), in hundredths of a percent
percentage(count, total) == (2 * 10000 * count + total) \div (2 * total)

\* the type names in the order of localeCompare
Alphabetical == <<"BUG_FIX", "CONFIG", "DOCS", "FEATURE", "REFACTOR", "TEST", "UNKNOWN">>

rank(type) == CHOOSE n \in 1..Len(Alphabetical) : Alphabetical[n] = type

\* a comparator that orders by count alone
before_countOnly(x, y) == x.count > y.count

\* the comparator of typeBreakdown.sort: x sorts before y
before(x, y) ==
    IF y.count - x.count # 0 THEN y.count - x.count < 0 ELSE rank(x.type) < rank(y.type)

\* Array.prototype.sort (stable) with that comparator
RECURSIVE insertByCount(_, _)
insertByCount(sorted, x) ==
    IF sorted = << >> THEN <<x>>
    ELSE IF before(x, Head(sorted)) THEN <<x>> \o sorted
    ELSE <<Head(sorted)>> \o insertByCount(Tail(sorted), x)

RECURSIVE sortByCount(_)
sortByCount(xs) ==
    IF xs = << >> THEN << >>
    ELSE insertByCount(sortByCount(SubSeq(xs, 1, Len(xs) - 1)), xs[Len(xs)])

\* the value calculateTypeMetrics returns for these counts
typeMetricsOf(counts) ==
    LET total == totalOf(counts)
        typeBreakdown ==
            [n \in 1..Len(counts) |->
                [type |-> counts[n].type, count |-> counts[n].count,
                 percentage |-> percentage(counts[n].count, total)]]
        sortedTypes == sortByCount(typeBreakdown)
    IN [kind |-> "done",
        typeBreakdown |-> sortedTypes,
        primaryContributionType |->
            IF Len(sortedTypes) > 0 /\ sortedTypes[1].type # "UNKNOWN"
            THEN sortedTypes[1].type ELSE "UNKNOWN"]

(***************************************************************************)
(* SpecTypes: calculateTypeMetrics on a list of commits.                   *)
(***************************************************************************)
\* longest list of commits given to calculateTypeMetrics
MaxCommits == 3

\* the commits the lists are made of
TypeCommits ==
    { [message |-> <<"f", "e", "a", "t", ":", " ", "a">>, files |-> << <<"a", ".", "j", "s">> >>],
      [message |-> <<" ", "F", "I", "X", ":", " ", "a">>, files |-> << <<"a", ".", "t", "e", "s", "t", ".", "j", "s">> >>],
      [message |-> <<"d", "o", "c", "s", ":", " ", "a">>, files |-> << <<"a", ".", "j", "s">> >>],
      [message |-> <<"x">>, files |-> << <<"a", ".", "t", "e", "s", "t", ".", "j", "s">>, <<"a", ".", "j", "s">> >>],
      [message |-> <<"x">>, files |-> << <<"a", ".", "j", "s">> >>],
      [message |-> <<"x">>, files |-> << <<"a", ".", "m", "d">>, <<"c", ".", "j", "s", "o", "n">> >>],
      [message |-> <<"x">>, files |-> << <<"c", ".", "j", "s", "o", "n">> >>],
      [message |-> <<"x">>, files |-> << >>] }

typesUnchanged == UNCHANGED <<cacheVars, resolverVars, pipelineVars, diffVars, riskVars, velocityVars, trendVars, cliVars, reviewVars>>

InitTypes ==
    /\ ReviewOff
    /\ CliOff
    /\ TrendsOff
    /\ VelocityOff
    /\ RiskOff
    /\ ResolverIdle
    /\ PipelineOff
    /\ DiffOff
    /\ maxSize = CommitCacheSize
    /\ cache = << >>
    /\ touch = [k \in Keys |-> 0]
    /\ promoted = {}
    /\ clock = 0
    /\ lastOp = NoOp
    /\ \E n \in 0..MaxCommits : typeCommits \in [1..n -> TypeCommits]
    /\ typeCursor = 0
    /\ lastTypes = << >>
    /\ typeCounts = << >>
    /\ typeMetrics = [kind |-> "none"]

\* one turn of commits.forEach(commit => ...)
CountCommit ==
    /\ typeMetrics.kind = "none"
    /\ typeCursor < Len(typeCommits)
    /\ LET types == categorizeCommit(typeCommits[typeCursor + 1]) IN
         /\ lastTypes' = types
         /\ typeCounts' = IF Len(types) = 0 THEN counted(typeCounts, "UNKNOWN")
                          ELSE countedAll(typeCounts, types)
    /\ typeCursor' = typeCursor + 1
    /\ UNCHANGED <<typeCommits, typeMetrics>>
    /\ typesUnchanged

\* after the loop: typeBreakdown, sortedTypes, return
ReturnTypeMetrics ==
    /\ typeMetrics.kind = "none"
    /\ typeCursor = Len(typeCommits)
    /\ typeMetrics' = typeMetricsOf(typeCounts)
    /\ UNCHANGED <<typeCommits, typeCursor, lastTypes, typeCounts>>
    /\ typesUnchanged

NextTypes ==
    \/ CountCommit
    \/ ReturnTypeMetrics

SpecTypes == InitTypes /\ [][NextTypes]_vars

(***************************************************************************)
(* C13: in categorizeCommit the file-pattern fallback runs if and only if  *)
(* no category was assigned from message matching (a TEST tag added for a  *)
(* test file does not count); when it runs it adds exactly one category,   *)
(* the first in table order whose file pattern matches a touched file.     *)
(***************************************************************************)
\* the commit categorized last
lastCommit == typeCommits[typeCursor]

\* the categories of the table whose file pattern matches a touched file
fileCandidates(commit) ==
    SelectSeq(TypeTable, LAMBDA type : matchesFilePatterns(commit.files, type))

\* what the claim says categorizeCommit returns, as a set
claimedTypes(commit) ==
    LET byMessage == {messageTypes(commit)[n] : n \in 1..Len(messageTypes(commit))}
        byTestFile == IF touchesTestFile(commit.files) THEN {"TEST"} ELSE {}
        byFallback == IF byMessage = {} /\ fileCandidates(commit) # << >>
                      THEN {fileCandidates(commit)[1]} ELSE {}
    IN byMessage \cup byTestFile \cup byFallback

C13_FallbackIffNoMessageCategory ==
    typeCursor > 0 =>
        {lastTypes[n] : n \in 1..Len(lastTypes)} = claimedTypes(lastCommit)

(***************************************************************************)
(* C14 (as stated): a category other than UNKNOWN is reported as           *)
(* primaryContributionType only if its count is strictly higher than the   *)
(* count of every other entry of the breakdown, UNKNOWN included.          *)
(***************************************************************************)
\* the entries of the returned breakdown other than the primary type
otherEntries ==
    {e \in {typeMetrics.typeBreakdown[n] : n \in 1..Len(typeMetrics.typeBreakdown)} :
        e.type # typeMetrics.primaryContributionType}

primaryEntry ==
    CHOOSE e \in {typeMetrics.typeBreakdown[n] : n \in 1..Len(typeMetrics.typeBreakdown)} :
        e.type = typeMetrics.primaryContributionType

RealPrimary ==
    /\ typeMetrics.kind = "done"
    /\ typeMetrics.primaryContributionType # "UNKNOWN"

C14_PrimaryStrictlyHighest ==
    RealPrimary => \A e \in otherEntries : primaryEntry.count > e.count

(***************************************************************************)
(* C14 (amended): a category other than UNKNOWN is reported as             *)
(* primaryContributionType only if its count is at least the count of      *)
(* every other entry of the breakdown and strictly higher than the count   *)
(* of every entry whose name comes before it alphabetically; a tie is won  *)
(* by the alphabetically first name, so a category wins a tie with UNKNOWN.*)
(***************************************************************************)
alphabeticallyBefore(x, y) ==
    \E m, n \in 1..Len(Alphabetical) : m < n /\ Alphabetical[m] = x /\ Alphabetical[n] = y

C14_PrimaryHighestTiesAlphabetical ==
    RealPrimary =>
        /\ primaryEntry \in {typeMetrics.typeBreakdown[n] : n \in 1..Len(typeMetrics.typeBreakdown)}
        /\ \A e \in otherEntries :
              \/ primaryEntry.count > e.count
              \/ /\ primaryEntry.count = e.count
                 /\ alphabeticallyBefore(primaryEntry.type, e.type)

\* a category is primary with the same count as UNKNOWN and as a category
\* that comes after it alphabetically
C14_Witness ==
    /\ RealPrimary
    /\ \E e \in otherEntries : e.type = "UNKNOWN" /\ e.count = primaryEntry.count
    /\ \E e \in otherEntries : e.type # "UNKNOWN" /\ e.count = primaryEntry.count

(***************************************************************************)
(* RiskAssessmentService.identifyRiskLevel and the tables of               *)
(* constants/reviewPatterns.  A pattern of the tables is a record: alts,   *)
(* its alternatives, each the literal pieces that `.*` separates; atEnd,   *)
(* whether it ends in `$`; words, the pieces between two `\b`; i, the      *)
(* flag.  Literals of a pattern with the flag i are kept in lower case.    *)
(***************************************************************************)
RiskLevels == <<"LOW", "MEDIUM", "HIGH">>

\* riskLevels.indexOf(level)
indexOf(level) == CHOOSE n \in 1..Len(RiskLevels) : RiskLevels[n] = level

\* Object.entries(FILE_PATTERNS) and Object.entries(RISK_PATTERNS): the keys
\* in declaration order
TierOrder == <<"HIGH", "MEDIUM", "LOW">>

\* \w
isWordChar(ch) ==
    \/ \E n \in 1..26 : ch = UpperCase[n] \/ ch = LowerCase[n]
    \/ ch \in {"0", "1", "2", "3", "4", "5", "6", "7", "8", "9", "_"}

\* \b before position k of s
boundaryAt(s, k) ==
    LET wordBefore == k - 1 >= 1 /\ k - 1 <= Len(s) /\ isWordChar(s[k - 1])
        wordAfter == k >= 1 /\ k <= Len(s) /\ isWordChar(s[k])
    IN wordBefore # wordAfter

\* the i-th piece of an alternative stands at position k of s
pieceAt(p, alt, i, s, k) ==
    /\ standsAt(s, k, alt[i])
    /\ i \in p.words => boundaryAt(s, k) /\ boundaryAt(s, k + Len(alt[i]))

\* the pieces of alt from the i-th match s from position j on; between two
\* pieces stands `.*`, which does not cross a line end
RECURSIVE follows(_, _, _, _, _)
follows(p, alt, i, s, j) ==
    IF i > Len(alt) THEN p.atEnd => j = Len(s) + 1
    ELSE \E k \in j..(Len(s) + 1) :
            /\ i = 1 \/ \A m \in j..(k - 1) : s[m] # "\n"
            /\ pieceAt(p, alt, i, s, k)
            /\ follows(p, alt, i + 1, s, k + Len(alt[i]))

\* pattern.test(s)
test(p, s) ==
    LET t == IF p.i THEN toLowerCase(s) ELSE s
    IN \E alt \in p.alts : follows(p, alt, 1, t, 1)

\* /function.*\([^)]{50,}\)/
manyParameters(s) ==
    \E a \in 1..Len(s) : \E b \in a..Len(s) : \E c \in b..Len(s) :
        /\ standsAt(s, a, <<"f", "u", "n", "c", "t", "i", "o", "n">>)
        /\ b >= a + 8
        /\ \A m \in (a + 8)..(b - 1) : s[m] # "\n"
        /\ s[b] = "("
        /\ c - b - 1 >= 50
        /\ \A m \in (b + 1)..(c - 1) : s[m] # ")"
        /\ s[c] = ")"

one(W) == {<<w>> : w \in W}
two(V, W) == {<<v, w>> : v \in V, w \in W}
suffix(V, W) == {<<v \o w>> : v \in V, w \in W}

any(A) == [alts |-> A, atEnd |-> FALSE, words |-> {}, i |-> TRUE]
ending(A) == [alts |-> A, atEnd |-> TRUE, words |-> {}, i |-> TRUE]

CodeExtensions == {<<".", "j", "s">>, <<".", "t", "s">>, <<".", "p", "y">>, <<".", "r", "b">>, <<".", "p", "h", "p">>, <<".", "j", "a", "v", "a">>, <<".", "g", "o">>}

\* FILE_PATTERNS
FILE_PATTERNS(level) ==
    CASE level = "HIGH" ->
           { ending(one({<<".", "e", "n", "v">>, <<".", "k", "e", "y">>, <<".", "p", "e", "m">>, <<".", "c", "r", "t">>, <<".", "c", "s", "r">>, <<".", "p", "1", "2">>, <<".", "p", "f", "x">>})),
             ending(two({<<"a", "u", "t", "h">>, <<"s", "e", "c", "u", "r", "i", "t", "y">>, <<"p", "e", "r", "m", "i", "s", "s", "i", "o", "n">>, <<"r", "o", "l", "e">>, <<"l", "o", "g", "i", "n">>, <<"p", "a", "y", "m", "e", "n", "t">>}, CodeExtensions)),
             ending(two({<<"m", "i", "d", "d", "l", "e", "w", "a", "r", "e">>}, CodeExtensions)),
             ending(two({<<"m", "i", "g", "r", "a", "t", "i", "o", "n">>}, CodeExtensions)) }
      [] level = "MEDIUM" ->
           { ending(suffix({<<".", "c", "o", "n", "f", "i", "g">>, <<".", "s", "e", "t", "t", "i", "n", "g", "s">>}, {<<".", "j", "s">>, <<".", "t", "s">>, <<".", "j", "s", "o", "n">>, <<".", "y", "m", "l">>, <<".", "y", "a", "m", "l">>})),
             ending(two({<<"a", "p", "i">>, <<"s", "e", "r", "v", "i", "c", "e">>, <<"c", "o", "n", "t", "r", "o", "l", "l", "e", "r">>, <<"r", "o", "u", "t", "e", "r">>}, CodeExtensions)),
             ending(two({<<"s", "t", "o", "r", "e">>, <<"r", "e", "d", "u", "c", "e", "r">>, <<"c", "o", "n", "t", "e", "x", "t">>}, {<<".", "j", "s">>, <<".", "t", "s">>, <<".", "j", "s", "x">>, <<".", "t", "s", "x">>})),
             ending(one({<<".", "s", "q", "l">>})) }
      [] level = "LOW" ->
           { ending(one({<<".", "m", "d">>, <<".", "m", "d", "x">>, <<".", "m", "a", "r", "k", "d", "o", "w", "n">>})) }

\* RISK_PATTERNS: the patterns of all the categories of a tier
RISK_PATTERNS(level) ==
    CASE level = "HIGH" ->
           { \* security
             any(one({<<"a", "u", "t", "h">>, <<"l", "o", "g", "i", "n">>, <<"l", "o", "g", "o", "u", "t">>, <<"p", "e", "r", "m", "i", "s", "s", "i", "o", "n">>, <<"r", "o", "l", "e">>, <<"c", "r", "e", "d", "e", "n", "t", "i", "a", "l">>, <<"s", "e", "s", "s", "i", "o", "n">>, <<"t", "o", "k", "e", "n">>, <<"j", "w", "t">>, <<"o", "a", "u", "t", "h">>, <<"p", "a", "s", "s", "w", "o", "r", "d">>, <<"s", "e", "c", "r", "e", "t">>, <<"k", "e", "y">>})),
             any(one({<<"e", "n", "c", "r", "y", "p", "t">>, <<"d", "e", "c", "r", "y", "p", "t">>, <<"h", "a", "s", "h">>, <<"s", "a", "l", "t">>, <<"c", "i", "p", "h", "e", "r">>, <<"s", "s", "l">>, <<"t", "l", "s">>, <<"h", "t", "t", "p">>})),
             any(one({<<"t", "r", "u", "n", "c", "a", "t", "e">>}) \cup two({<<"d", "e", "l", "e", "t", "e">>}, {<<"f", "r", "o", "m">>}) \cup two({<<"d", "r", "o", "p">>}, {<<"t", "a", "b", "l", "e">>})
                 \cup two({<<"u", "p", "d", "a", "t", "e">>}, {<<"s", "e", "t">>}) \cup two({<<"i", "n", "s", "e", "r", "t">>}, {<<"i", "n", "t", "o">>})),
             any(two({<<"s", "e", "l", "e", "c", "t">>, <<"u", "p", "d", "a", "t", "e">>, <<"d", "e", "l", "e", "t", "e">>}, {<<"w", "h", "e", "r", "e">>})),
             any(one({<<"b", "e", "a", "r", "e", "r">>, <<"c", "o", "r", "s">>, <<"c", "s", "r", "f">>, <<"x", "s", "s">>, <<"s", "a", "n", "i", "t", "i", "z", "e">>}) \cup two({<<"a", "p", "i">>}, {<<"k", "e", "y">>}) \cup two({<<"b", "a", "s", "i", "c">>}, {<<"a", "u", "t", "h">>})),
             any(one({<<"u", "p", "l", "o", "a", "d">>, <<"d", "o", "w", "n", "l", "o", "a", "d">>, <<"r", "e", "a", "d", "f", "i", "l", "e">>, <<"w", "r", "i", "t", "e", "f", "i", "l", "e">>, <<"u", "n", "l", "i", "n", "k">>, <<"r", "m", "d", "i", "r">>}) \cup two({<<"f", "i", "l", "e">>}, {<<"s", "t", "r", "e", "a", "m">>})),
             any(one({<<"e", "n", "v">>, <<"c", "o", "n", "f", "i", "g">>, <<"s", "e", "t", "t", "i", "n", "g">>, <<"p", "r", "o", "c", "e", "s", "s", ".", "e", "n", "v">>, <<"d", "o", "t", "e", "n", "v">>})),
             any(one({<<"p", "a", "y", "m", "e", "n", "t">>, <<"s", "t", "r", "i", "p", "e">>, <<"p", "a", "y", "p", "a", "l">>, <<"b", "i", "l", "l", "i", "n", "g">>, <<"i", "n", "v", "o", "i", "c", "e">>}) \cup two({<<"c", "r", "e", "d", "i", "t">>}, {<<"c", "a", "r", "d">>})),
             \* dataFlow
             any(one({<<"s", "t", "o", "r", "e">>, <<"r", "e", "d", "u", "c", "e", "r">>, <<"a", "c", "t", "i", "o", "n">>, <<"d", "i", "s", "p", "a", "t", "c", "h">>, <<"c", "o", "m", "m", "i", "t">>, <<"s", "t", "a", "t", "e", ".">>})),
             any(one({<<"p", "a", "r", "s", "e">>, <<"s", "t", "r", "i", "n", "g", "i", "f", "y">>, <<"t", "r", "a", "n", "s", "f", "o", "r", "m">>, <<"c", "o", "n", "v", "e", "r", "t">>, <<"m", "i", "g", "r", "a", "t", "e">>})),
             any(one({<<"c", "a", "c", "h", "e">>, <<"r", "e", "d", "i", "s">>, <<"m", "e", "m", "c", "a", "c", "h", "e", "d">>, <<"i", "n", "v", "a", "l", "i", "d", "a", "t", "e">>})),
             any(one({<<"t", "r", "a", "n", "s", "a", "c", "t", "i", "o", "n">>, <<"c", "o", "m", "m", "i", "t">>, <<"r", "o", "l", "l", "b", "a", "c", "k">>, <<"l", "o", "c", "k">>, <<"d", "e", "a", "d", "l", "o", "c", "k">>})),
             any(one({<<"a", "s", "y", "n", "c">>, <<"a", "w", "a", "i", "t">>, <<"p", "r", "o", "m", "i", "s", "e">>, <<"c", "a", "l", "l", "b", "a", "c", "k">>, <<"o", "b", "s", "e", "r", "v", "a", "b", "l", "e">>, <<"s", "u", "b", "s", "c", "r", "i", "b", "e">>})),
             \* infrastructure
             any(one({<<"s", "e", "r", "v", "e", "r">>, <<"c", "l", "u", "s", "t", "e", "r">>, <<"d", "o", "c", "k", "e", "r">>, <<"k", "u", "b", "e", "r", "n", "e", "t", "e", "s">>, <<"d", "e", "p", "l", "o", "y", "m", "e", "n", "t">>, <<"n", "g", "i", "n", "x">>, <<"a", "p", "a", "c", "h", "e">>})),
             any(one({<<"d", "a", "t", "a", "b", "a", "s", "e">>, <<"c", "o", "n", "n", "e", "c", "t", "i", "o", "n">>, <<"p", "o", "o", "l">>, <<"r", "e", "p", "l", "i", "c", "a">>, <<"s", "h", "a", "r", "d">>})),
             any(one({<<"h", "t", "t", "p">>, <<"s", "o", "c", "k", "e", "t">>, <<"t", "c", "p">>, <<"u", "d", "p">>, <<"p", "o", "r", "t">>, <<"d", "n", "s">>, <<"p", "r", "o", "x", "y">>})) }
      [] level = "MEDIUM" ->
           { \* codeQuality (the pattern of functions with many parameters is manyParameters)
             [alts |-> two({<<"w", "h", "i", "l", "e">>, <<"f", "o", "r">>}, {<<"w", "h", "i", "l", "e">>, <<"f", "o", "r">>}), atEnd |-> FALSE, words |-> {1, 2}, i |-> FALSE],
             [alts |-> two({<<"i", "f">>, <<"s", "w", "i", "t", "c", "h">>}, {<<"i", "f">>, <<"s", "w", "i", "t", "c", "h">>}), atEnd |-> FALSE, words |-> {2}, i |-> FALSE],
             [alts |-> one({<<"t", "o", "d", "o">>, <<"f", "i", "x", "m", "e">>, <<"h", "a", "c", "k">>, <<"x", "x", "x">>, <<"b", "u", "g">>, <<"o", "p", "t", "i", "m", "i", "z", "e">>}), atEnd |-> FALSE, words |-> {1}, i |-> TRUE],
             any(one({<<"t", "r", "y">>, <<"c", "a", "t", "c", "h">>, <<"t", "h", "r", "o", "w">>, <<"e", "r", "r", "o", "r">>, <<"e", "x", "c", "e", "p", "t", "i", "o", "n">>, <<"f", "i", "n", "a", "l", "l", "y">>})),
             any(one({<<"m", "e", "m", "o", "r", "y">>, <<"l", "e", "a", "k">>, <<"g", "a", "r", "b", "a", "g", "e">>, <<"c", "o", "l", "l", "e", "c", "t">>, <<"d", "i", "s", "p", "o", "s", "e">>, <<"c", "l", "e", "a", "n", "u", "p">>})),
             \* userExperience
             any(one({<<"r", "o", "u", "t", "e">>, <<"n", "a", "v", "i", "g", "a", "t", "i", "o", "n">>, <<"r", "e", "d", "i", "r", "e", "c", "t">>, <<"h", "i", "s", "t", "o", "r", "y">>, <<"l", "i", "n", "k">>})),
             any(one({<<"l", "o", "a", "d", "i", "n", "g">>, <<"e", "r", "r", "o", "r">>, <<"s", "u", "c", "c", "e", "s", "s">>, <<"d", "i", "s", "a", "b", "l", "e", "d">>, <<"e", "n", "a", "b", "l", "e", "d">>, <<"a", "c", "t", "i", "v", "e">>, <<"i", "n", "a", "c", "t", "i", "v", "e">>})),
             any(one({<<"f", "o", "r", "m">>, <<"v", "a", "l", "i", "d", "a", "t", "i", "o", "n">>, <<"i", "n", "p", "u", "t">>, <<"s", "u", "b", "m", "i", "t">>, <<"r", "e", "s", "e", "t">>, <<"o", "n", "c", "h", "a", "n", "g", "e">>, <<"o", "n", "s", "u", "b", "m", "i", "t">>})),
             any(one({<<"c", "l", "i", "c", "k">>, <<"s", "u", "b", "m", "i", "t">>, <<"c", "h", "a", "n", "g", "e">>, <<"f", "o", "c", "u", "s">>, <<"b", "l", "u", "r">>, <<"k", "e", "y", "u", "p">>, <<"k", "e", "y", "d", "o", "w", "n">>, <<"m", "o", "u", "s", "e", "u", "p">>, <<"m", "o", "u", "s", "e", "d", "o", "w", "n">>})),
             \* dataManagement
             any(one({<<"v", "a", "l", "i", "d", "a", "t", "e">>, <<"s", "a", "n", "i", "t", "i", "z", "e">>, <<"e", "s", "c", "a", "p", "e">>, <<"t", "r", "i", "m">>, <<"p", "a", "r", "s", "e">>})),
             any(one({<<"f", "o", "r", "m", "a", "t">>, <<"n", "o", "r", "m", "a", "l", "i", "z", "e">>, <<"s", "e", "r", "i", "a", "l", "i", "z", "e">>, <<"d", "e", "s", "e", "r", "i", "a", "l", "i", "z", "e">>})),
             any(one({<<"s", "e", "t", "s", "t", "a", "t", "e">>, <<"u", "s", "e", "s", "t", "a", "t", "e">>, <<"u", "s", "e", "r", "e", "d", "u", "c", "e", "r">>, <<"m", "u", "t", "a", "t", "i", "o", "n", "s">>})),
             any(one({<<"a", "p", "i">>, <<"f", "e", "t", "c", "h">>, <<"a", "x", "i", "o", "s">>, <<"h", "t", "t", "p">>, <<"r", "e", "q", "u", "e", "s", "t">>, <<"r", "e", "s", "p", "o", "n", "s", "e">>})) }
      [] level = "LOW" ->
           { \* documentation
             any(one({<<"/", "*", "*">>, <<"*", "/">>, <<"/", "/">>, <<"@", "p", "a", "r", "a", "m">>, <<"@", "r", "e", "t", "u", "r", "n">>, <<"@", "t", "h", "r", "o", "w", "s">>})),
             any(one({<<"i", "n", "t", "e", "r", "f", "a", "c", "e">>, <<"t", "y", "p", "e">>, <<"e", "n", "u", "m">>, <<"@", "t", "y", "p", "e", "s">>})),
             \* styling
             any(one({<<"s", "t", "y", "l", "e">>, <<"c", "s", "s">>, <<"s", "c", "s", "s">>, <<"l", "e", "s", "s">>, <<"t", "a", "i", "l", "w", "i", "n", "d">>, <<"t", "h", "e", "m", "e">>})),
             any(one({<<"f", "l", "e", "x">>, <<"g", "r", "i", "d">>, <<"p", "o", "s", "i", "t", "i", "o", "n">>, <<"m", "a", "r", "g", "i", "n">>, <<"p", "a", "d", "d", "i", "n", "g">>, <<"w", "i", "d", "t", "h">>, <<"h", "e", "i", "g", "h", "t">>})),
             \* utilities
             any(one({<<"u", "t", "i", "l">>, <<"h", "e", "l", "p", "e", "r">>, <<"f", "o", "r", "m", "a", "t", "t", "e", "r">>, <<"p", "a", "r", "s", "e", "r">>, <<"c", "o", "n", "v", "e", "r", "t", "e", "r">>})),
             any(one({<<"c", "o", "n", "s", "t">>, <<"e", "n", "u", "m">>, <<"c", "o", "n", "s", "t", "a", "n", "t">>})),
             any(one({<<"t", "e", "s", "t">>, <<"s", "p", "e", "c">>, <<"d", "e", "s", "c", "r", "i", "b", "e">>, <<"i", "t">>, <<"e", "x", "p", "e", "c", "t">>, <<"a", "s", "s", "e", "r", "t">>, <<"m", "o", "c", "k">>})) }

\* patterns.some(pattern => pattern.test(file))
fileTierMatches(level, file) == \E p \in FILE_PATTERNS(level) : test(p, file)

\* hasMatch after the loop over the categories of a tier
hasMatch(level, diffText) ==
    \/ \E p \in RISK_PATTERNS(level) : test(p, diffText)
    \/ level = "MEDIUM" /\ manyParameters(diffText)

\* /\.(md|mdx|markdown)$/i.test(file)
isMarkdown(file) == test(ending(one({<<".", "m", "d">>, <<".", "m", "d", "x">>, <<".", "m", "a", "r", "k", "d", "o", "w", "n">>})), file)

\* an upgrade that takes the content tier whatever the current level
upgraded_always(current, level) == level

\* if (contentRiskIndex > currentRiskIndex) riskLevel = level
upgraded(current, level) ==
    IF indexOf(level) > indexOf(current) THEN level ELSE current

(***************************************************************************)
(* SpecRisk: one call of identifyRiskLevel(file, diffContent).             *)
(***************************************************************************)
RiskFiles ==
    { <<"a", ".", "m", "d">>, <<"R", ".", "M", "D", "X">>, <<"a", "u", "t", "h", ".", "j", "s">>, <<"a", "u", "t", "h", "a", "p", "i", ".", "j", "s">>, <<"x", ".", "e", "n", "v">>, <<"a", "p", "i", ".", "t", "s">>,
      <<"s", "t", "o", "r", "e", ".", "j", "s", "x">>, <<"a", ".", "s", "q", "l">>, <<"b", ".", "c", "s", "s">> }

RiskDiffs ==
    { << >>,
      << <<"+", " ", "z", "z">> >>,
      << <<"+", " ", "t", "o", "k", "e", "n">> >>,
      << <<"+", " ", "t", "r", "y", " ", "{">> >>,
      << <<"+", " ", "w", "i", "d", "t", "h">> >>,
      << <<"+", " ", "t", "r", "y", " ", "{">>, <<"+", " ", "T", "o", "k", "e", "n">> >>,
      << <<"+", " ", "d", "r", "o", "p">>, <<"+", " ", "t", "a", "b", "l", "e">> >>,
      << <<"+", " ", "d", "r", "o", "p", " ", "t", "a", "b", "l", "e">> >>,
      << <<"+", " ", "f", "o", "r", " ", "(", ";", ";", ")", " ", "f", "o", "r">> >>,
      << <<"+", " ", "T", "O", "D", "O">>, <<"+", " ", "w", "i", "d", "t", "h">> >> }

riskUnchanged == UNCHANGED <<cacheVars, resolverVars, pipelineVars, diffVars, typeVars, velocityVars, trendVars, cliVars, reviewVars>>

InitRisk ==
    /\ ReviewOff
    /\ CliOff
    /\ TrendsOff
    /\ VelocityOff
    /\ ResolverIdle
    /\ PipelineOff
    /\ DiffOff
    /\ TypesOff
    /\ maxSize = CommitCacheSize
    /\ cache = << >>
    /\ touch = [k \in Keys |-> 0]
    /\ promoted = {}
    /\ clock = 0
    /\ lastOp = NoOp
    /\ riskFile \in RiskFiles
    /\ riskDiff \in RiskDiffs
    /\ riskStep = "called"
    /\ riskTier = 0
    /\ riskLevel = "LOW"

\* const diffText = diffContent.join('\n')
diffText == join(riskDiff, "\n")

\* the Markdown test, then let riskLevel = 'LOW'
RiskBegin ==
    /\ riskStep = "called"
    /\ riskStep' = IF isMarkdown(riskFile) THEN "returned" ELSE "file"
    /\ riskTier' = IF isMarkdown(riskFile) THEN 0 ELSE 1
    /\ riskLevel' = "LOW"
    /\ UNCHANGED <<riskFile, riskDiff>>
    /\ riskUnchanged

\* one turn of the loop over Object.entries(this.filePatterns)
FileTier ==
    /\ riskStep = "file"
    /\ IF fileTierMatches(TierOrder[riskTier], riskFile)
       THEN /\ riskLevel' = TierOrder[riskTier]
            /\ riskStep' = "content"
            /\ riskTier' = 1
       ELSE /\ riskLevel' = riskLevel
            /\ riskStep' = IF riskTier = Len(TierOrder) THEN "content" ELSE "file"
            /\ riskTier' = IF riskTier = Len(TierOrder) THEN 1 ELSE riskTier + 1
    /\ UNCHANGED <<riskFile, riskDiff>>
    /\ riskUnchanged

\* one turn of the loop over Object.entries(this.riskPatterns); return riskLevel
ContentTier ==
    /\ riskStep = "content"
    /\ IF hasMatch(TierOrder[riskTier], diffText)
       THEN /\ riskLevel' = upgraded(riskLevel, TierOrder[riskTier])
            /\ riskStep' = "returned"
            /\ riskTier' = riskTier
       ELSE /\ riskLevel' = riskLevel
            /\ riskStep' = IF riskTier = Len(TierOrder) THEN "returned" ELSE "content"
            /\ riskTier' = IF riskTier = Len(TierOrder) THEN riskTier ELSE riskTier + 1
    /\ UNCHANGED <<riskFile, riskDiff>>
    /\ riskUnchanged

NextRisk ==
    \/ RiskBegin
    \/ FileTier
    \/ ContentTier

SpecRisk == InitRisk /\ [][NextRisk]_vars

\* the higher of two levels in LOW < MEDIUM < HIGH
higher(a, b) ==
    IF \E m, n \in 1..3 : m > n /\ <<"LOW", "MEDIUM", "HIGH">>[m] = a /\ <<"LOW", "MEDIUM", "HIGH">>[n] = b
    THEN a ELSE b

\* the baseline: the first file-pattern tier that matches the path, LOW when
\* none matches
baselineOf(file) ==
    IF fileTierMatches("HIGH", file) THEN "HIGH"
    ELSE IF fileTierMatches("MEDIUM", file) THEN "MEDIUM"
    ELSE "LOW"

\* the riskiest content tier with a matching pattern; LOW when none matches
riskiestContent(text) ==
    IF hasMatch("HIGH", text) THEN "HIGH"
    ELSE IF hasMatch("MEDIUM", text) THEN "MEDIUM"
    ELSE "LOW"

(***************************************************************************)
(* C15: for a path that is not Markdown, identifyRiskLevel returns the     *)
(* higher of the file-pattern baseline and the riskiest content tier with  *)
(* a matching pattern, and never a level below the baseline.               *)
(***************************************************************************)
C15_HigherOfBaselineAndContent ==
    (riskStep = "returned" /\ ~isMarkdown(riskFile)) =>
        /\ riskLevel = higher(baselineOf(riskFile), riskiestContent(diffText))
        /\ higher(riskLevel, baselineOf(riskFile)) = riskLevel

\* a HIGH file whose hunk only matches the MEDIUM tier has been assessed
C15_Witness ==
    /\ riskStep = "returned"
    /\ ~isMarkdown(riskFile)
    /\ baselineOf(riskFile) = "HIGH"
    /\ riskiestContent(diffText) = "MEDIUM"
    /\ riskLevel = "HIGH"

(***************************************************************************)
(* metricsService: parseGitStats, analyzeFileImpact, groupPaths and        *)
(* calculateVelocityMetrics.  A Map is the sequence of its entries in      *)
(* insertion order; a value of toFixed(1) is a number of tenths, or the    *)
(* text JS prints for a division by zero.                                  *)
(***************************************************************************)
Digits == <<"0", "1", "2", "3", "4", "5", "6", "7", "8", "9">>

isDigit(ch) == \E n \in 1..10 : Digits[n] = ch

\* parseInt(s, 10) for a string of digits
RECURSIVE parseInt(_)
parseInt(s) ==
    IF s = << >> THEN 0
    ELSE 10 * parseInt(SubSeq(s, 1, Len(s) - 1))
            + (CHOOSE n \in 0..9 : Digits[n + 1] = s[Len(s)])

\* a number as git prints it
RECURSIVE decimal(_)
decimal(n) ==
    IF n < 10 THEN <<Digits[n + 1]>> ELSE decimal(n \div 10) \o <<Digits[(n % 10) + 1]>>

\* n times the character ch
repeated(ch, n) == [m \in 1..n |-> ch]

\* what returns null in the source
Null == [isNull |-> TRUE]

\* the line of `git show --stat` for one file
statLine(f) ==
    <<" ">> \o f.path \o <<" ", "|", " ">> \o decimal(f.ins + f.del) \o <<" ">>
        \o repeated("+", f.ins) \o repeated("-", f.del) \o <<"\n">>

RECURSIVE sumOf(_, _)
sumOf(xs, field) == IF xs = << >> THEN 0 ELSE Head(xs)[field] + sumOf(Tail(xs), field)

\* the summary line of `git show --stat`: a clause is left out when its
\* number is 0, unless both are 0; singular for 1
statSummary(files) ==
    LET n == Len(files)
        ins == sumOf(files, "ins")
        del == sumOf(files, "del")
        plural(k) == IF k = 1 THEN << >> ELSE <<"s">>
    IN <<" ">> \o decimal(n) \o <<" ", "f", "i", "l", "e">> \o plural(n) \o <<" ", "c", "h", "a", "n", "g", "e", "d">>
        \o (IF ins > 0 \/ del = 0
            THEN <<",", " ">> \o decimal(ins) \o <<" ", "i", "n", "s", "e", "r", "t", "i", "o", "n">> \o plural(ins) \o <<"(", "+", ")">> ELSE << >>)
        \o (IF del > 0 \/ ins = 0
            THEN <<",", " ">> \o decimal(del) \o <<" ", "d", "e", "l", "e", "t", "i", "o", "n">> \o plural(del) \o <<"(", "-", ")">> ELSE << >>)
        \o <<"\n">>

\* the text of `git show <hash> --stat --pretty=format:` for a commit that
\* changes these files
statText(files) ==
    IF files = << >> THEN << >>
    ELSE concat([n \in 1..Len(files) |-> statLine(files[n])]) \o statSummary(files)

\* what follows the word of a clause: \s+changed, \(\+\) or \(-\)
closing(line, m, tail) ==
    IF tail.spaced
    THEN \E k \in (m + 1)..Len(line) :
            /\ \A x \in m..(k - 1) : isWhite(line[x])
            /\ standsAt(line, k, tail.text)
    ELSE standsAt(line, m, tail.text)

\* line.match(/(\d+)\s+<word>s?<tail>/): the leftmost match, its group read
\* as a number
countBefore(line, word, tail) ==
    LET n == Len(line)
        \* where <word>s?<closing> stands
        words == {k \in 1..n :
                    /\ standsAt(line, k, word)
                    /\ \/ closing(line, k + Len(word), tail)
                       \/ /\ standsAt(line, k + Len(word), <<"s">>)
                          /\ closing(line, k + Len(word) + 1, tail)}
        \* the digits that \s+ separates from such a place
        ends == {b \in 1..n : /\ isDigit(line[b])
                              /\ \E k \in words : /\ k >= b + 2
                                                  /\ \A m \in (b + 1)..(k - 1) : isWhite(line[m])}
        \* the first digit of the run of digits that ends at b
        first(b) == CHOOSE a \in 1..b :
                        /\ \A m \in a..b : isDigit(line[m])
                        /\ a = 1 \/ ~isDigit(line[a - 1])
    IN IF ends = {} THEN Null
       ELSE LET b == CHOOSE x \in ends : \A y \in ends : x <= y
            IN [isNull |-> FALSE, value |-> parseInt(SubSeq(line, first(b), b))]

\* lines.find(line => line.trim().includes('files changed')): the lines found
summaryIndex(lines) ==
    {n \in 1..Len(lines) : includesText(trim(lines[n]), <<"f", "i", "l", "e", "s", " ", "c", "h", "a", "n", "g", "e", "d">>)}

parseGitStats(statsOutput) ==
    IF statsOutput = << >> THEN Null
    ELSE LET lines == split(trim(statsOutput), "\n")
             found == summaryIndex(lines)
         IN IF found = {} THEN Null
            ELSE LET summaryLine == lines[CHOOSE x \in found : \A y \in found : x <= y]
                     filesMatch == countBefore(summaryLine, <<"f", "i", "l", "e">>, [spaced |-> TRUE, text |-> <<"c", "h", "a", "n", "g", "e", "d">>])
                     insertionsMatch == countBefore(summaryLine, <<"i", "n", "s", "e", "r", "t", "i", "o", "n">>, [spaced |-> FALSE, text |-> <<"(", "+", ")">>])
                     deletionsMatch == countBefore(summaryLine, <<"d", "e", "l", "e", "t", "i", "o", "n">>, [spaced |-> FALSE, text |-> <<"(", "-", ")">>])
                     number(match) == IF match.isNull THEN 0 ELSE match.value
                 IN [isNull |-> FALSE,
                     filesChanged |-> number(filesMatch),
                     insertions |-> number(insertionsMatch),
                     deletions |-> number(deletionsMatch),
                     totalChanges |-> number(insertionsMatch) + number(deletionsMatch)]

\* SOURCE_PATTERNS.some(pattern => pattern.test(filePath))
sourcePattern(filePath) ==
    \E ext \in {<<".", "j", "s">>, <<".", "j", "s", "x">>, <<".", "t", "s">>, <<".", "t", "s", "x">>, <<".", "c", "s", "s">>, <<".", "s", "c", "s", "s">>, <<".", "s", "a", "s", "s">>, <<".", "l", "e", "s", "s">>, <<".", "s", "t", "y", "l">>, <<".", "h", "t", "m">>, <<".", "h", "t", "m", "l">>, <<".", "m", "d">>, <<".", "m", "d", "x">>} :
        endsWith(filePath, ext)

\* EXCLUDED_PATTERNS.some(pattern => pattern.test(filePath))
excludedPattern(filePath) ==
    \/ \E tail \in {<<"p", "a", "c", "k", "a", "g", "e", "-", "l", "o", "c", "k", ".", "j", "s", "o", "n">>, <<"y", "a", "r", "n", ".", "l", "o", "c", "k">>, <<".", "m", "i", "n", ".", "j", "s">>, <<".", "m", "i", "n", ".", "c", "s", "s">>, <<".", "m", "a", "p">>, <<".", "d", ".", "t", "s">>} :
          endsWith(filePath, tail)
    \/ \E dir \in {<<"n", "o", "d", "e", "_", "m", "o", "d", "u", "l", "e", "s", "/">>, <<"d", "i", "s", "t", "/">>, <<"b", "u", "i", "l", "d", "/">>, <<".", "n", "x", "/">>, <<"c", "o", "v", "e", "r", "a", "g", "e", "/">>, <<".", "n", "e", "x", "t", "/">>, <<".", "c", "a", "c", "h", "e", "/">>} :
          startsWith(filePath, dir)

\* shouldIncludeFile(filePath, [], [])
shouldIncludeFile(filePath) ==
    IF startsWith(filePath, <<"t", "e", "s", "t">>) /\ endsWith(filePath, <<".", "t", "x", "t">>) THEN TRUE
    ELSE ~excludedPattern(filePath) /\ sourcePattern(filePath)

\* path.dirname
dirname(filePath) ==
    LET slashes == {n \in 1..Len(filePath) : filePath[n] = "/"}
        last == CHOOSE x \in slashes : \A y \in slashes : y <= x
    IN IF slashes = {} THEN <<".">>
       ELSE IF last = 1 THEN <<"/">>
       ELSE SubSeq(filePath, 1, last - 1)

\* line.match(/^(.+?)\s+\|\s+(\d+)/): filePath the shortest first group,
\* changes the digits
fileMatch(line) ==
    LET n == Len(line)
        \* the places of a `|` with \s+ before it and \s+(\d) after it
        bars == {b \in 3..n :
                    /\ line[b] = "|"
                    /\ isWhite(line[b - 1])
                    /\ \E c \in (b + 2)..n :
                          /\ isDigit(line[c])
                          /\ \A m \in (b + 1)..(c - 1) : isWhite(line[m])}
        \* where the first group may end
        ends == {a \in 1..n : \E b \in bars : /\ a + 2 <= b
                                              /\ \A m \in (a + 1)..(b - 1) : isWhite(line[m])}
    IN IF ends = {} THEN Null
       ELSE LET a == CHOOSE x \in ends : \A y \in ends : x <= y
                b == CHOOSE x \in bars : x >= a + 2 /\ \A m \in (a + 1)..(x - 1) : isWhite(line[m])
                c == CHOOSE x \in (b + 2)..n :
                        isDigit(line[x]) /\ \A m \in (b + 1)..(x - 1) : isWhite(line[m])
                d == CHOOSE x \in c..n :
                        /\ \A m \in c..x : isDigit(line[m])
                        /\ x = n \/ ~isDigit(line[x + 1])
            IN [isNull |-> FALSE, filePath |-> SubSeq(line, 1, a),
                changes |-> parseInt(SubSeq(line, c, d))]

\* map.set(key, (map.get(key) || 0) + n)
plus(map, key, n) ==
    IF \E m \in 1..Len(map) : map[m].key = key
    THEN [m \in 1..Len(map) |->
            IF map[m].key = key THEN [map[m] EXCEPT !.value = @ + n] ELSE map[m]]
    ELSE Append(map, [key |-> key, value |-> n])

\* entries.sort((a, b) => b[1] - a[1]): descending by value, stable
RECURSIVE sortDescending(_)
sortDescending(entries) ==
    IF entries = << >> THEN << >>
    ELSE LET rest == sortDescending(SubSeq(entries, 1, Len(entries) - 1))
             x == entries[Len(entries)]
             ahead == {m \in 1..Len(rest) : rest[m].value >= x.value}
             k == IF ahead = {} THEN 0 ELSE CHOOSE m \in ahead : \A y \in ahead : y <= m
         IN SubSeq(rest, 1, k) \o <<x>> \o SubSeq(rest, k + 1, Len(rest))

\* how many files slice(0, 5) keeps (5 in the source)
topCount == 2

\* Array.prototype.slice(0, n)
slice(xs, n) == SubSeq(xs, 1, IF Len(xs) < n THEN Len(xs) ELSE n)

\* ((num / den) * 100).toFixed(1)
toFixed1(num, den) ==
    IF den = 0 THEN [text |-> IF num = 0 THEN "NaN" ELSE "Infinity"]
    ELSE [tenths |-> (2 * 1000 * num + den) \div (2 * den)]

\* groupPaths: one turn of parts.forEach for the entry (directory, changes)
RECURSIVE placed(_, _, _, _, _, _)
placed(group, parts, index, pathBefore, changes_, total) ==
    LET currentPath == IF pathBefore # << >> THEN pathBefore \o <<"/">> \o parts[index]
                       ELSE parts[index]
        known == \E m \in 1..Len(group) : group[m].key = currentPath
    IN IF index = Len(parts)
       THEN IF known THEN group
            ELSE Append(group, [key |-> currentPath, changes |-> changes_,
                                percentage |-> toFixed1(changes_, total), subPaths |-> << >>])
       ELSE LET entered == IF known THEN group
                           ELSE Append(group, [key |-> currentPath, changes |-> 0,
                                               percentage |-> [tenths |-> 0], subPaths |-> << >>])
            IN [m \in 1..Len(entered) |->
                  IF entered[m].key = currentPath
                  THEN [key |-> currentPath,
                        changes |-> entered[m].changes + changes_,
                        percentage |-> toFixed1(entered[m].changes + changes_, total),
                        subPaths |-> placed(entered[m].subPaths, parts, index + 1,
                                            currentPath, changes_, total)]
                  ELSE entered[m]]

RECURSIVE groupedFrom(_, _, _)
groupedFrom(groups, paths, total) ==
    IF paths = << >> THEN groups
    ELSE groupedFrom(placed(groups, split(Head(paths).directory, "/"), 1, << >>,
                            Head(paths).changes, total),
                     Tail(paths), total)

groupPaths(paths) == groupedFrom(<< >>, paths, sumOf(paths, "changes"))

\* the loop of analyzeFileImpact over lines[0 .. length - 2]: fileStats and
\* directoryStats
RECURSIVE fileLoop(_, _, _)
fileLoop(lines, n, maps) ==
    IF n > Len(lines) - 1 THEN maps
    ELSE LET found == fileMatch(trim(lines[n]))
         IN IF trim(lines[n]) = << >> \/ found.isNull \/ ~shouldIncludeFile(found.filePath)
            THEN fileLoop(lines, n + 1, maps)
            ELSE fileLoop(lines, n + 1,
                    [fileStats |-> plus(maps.fileStats, found.filePath, found.changes),
                     directoryStats |-> plus(maps.directoryStats, dirname(found.filePath), found.changes)])

\* sortedDirectories with their percentage of the denominator den
directoryList(directoryStats, den) ==
    LET sorted == sortDescending(directoryStats)
    IN [n \in 1..Len(sorted) |->
          [directory |-> sorted[n].key, changes |-> sorted[n].value,
           percentage |-> toFixed1(sorted[n].value, den)]]

\* Math.max(...values)
maxOf(map) ==
    LET values == {map[n].value : n \in 1..Len(map)}
    IN CHOOSE x \in values : \A y \in values : y <= x

analyzeFileImpact(statsOutput) ==
    IF statsOutput = << >> THEN Null
    ELSE LET maps == fileLoop(split(statsOutput, "\n"), 1,
                              [fileStats |-> << >>, directoryStats |-> << >>])
         IN IF sumOf(maps.directoryStats, "value") = 0 THEN Null
            ELSE LET sortedDirectories ==
                         directoryList(maps.directoryStats, maxOf(maps.directoryStats))
                 IN [isNull |-> FALSE,
                     topFiles |-> slice(sortDescending(maps.fileStats), topCount),
                     directoryImpact |-> sortedDirectories,
                     groupedDirectories |-> groupPaths(sortedDirectories)]

\* a % n of JS: the sign of the result is the sign of a
remainder(a, n) == IF a >= 0 THEN a % n ELSE 0 - ((0 - a) % n)

\* the counter of timeDistribution that the if / else if / else increments
bucketOf(h) ==
    IF h >= 5 /\ h < 12 THEN "morning"
    ELSE IF h >= 12 /\ h < 17 THEN "afternoon"
    ELSE "evening"

\* forEach over the entries of an impact: map.set(key, (map.get(key) || 0) + changes)
RECURSIVE plusAll(_, _)
plusAll(map, entries) ==
    IF entries = << >> THEN map
    ELSE plusAll(plus(map, Head(entries).key, Head(entries).value), Tail(entries))

\* calculateTypeMetrics(commitsWithFiles)
RECURSIVE typeCountsOf(_, _)
typeCountsOf(counts, list_) ==
    IF list_ = << >> THEN counts
    ELSE LET types == categorizeCommit(Head(list_))
         IN typeCountsOf(IF Len(types) = 0 THEN counted(counts, "UNKNOWN")
                         ELSE countedAll(counts, types), Tail(list_))

\* a list whose percentages are relative to the largest directory
impactDenominator_max(total, directoryStats) == maxOf(directoryStats)

\* the denominator of the percentages of impactMetrics.directoryImpact
impactDenominator(total, directoryStats) == total

\* the metrics object built after the loop
metricsOf(n, total, distribution, data, withFiles) ==
    [kind |-> "returned",
     totalLinesChanged |-> total,
     averageCommitSize |-> (2 * total + n) \div (2 * n),
     timeDistribution |->
        [morning |-> toFixed1(distribution.morning, n),
         afternoon |-> toFixed1(distribution.afternoon, n),
         evening |-> toFixed1(distribution.evening, n)],
     impactMetrics |->
        [topFiles |->
            LET top == slice(sortDescending(data.topFiles), topCount)
            IN [m \in 1..Len(top) |-> [file |-> top[m].key, changes |-> top[m].value]],
         directoryImpact |->
            directoryList(data.directoryImpact, impactDenominator(total, data.directoryImpact)),
         groupedDirectories |->
            groupPaths(directoryList(data.directoryImpact,
                                     impactDenominator(total, data.directoryImpact)))],
     typeMetrics |-> typeMetricsOf(typeCountsOf(<< >>, withFiles)),
     trends |-> null]

\* what calculateVelocityMetrics returns for no commits
emptyMetrics ==
    [kind |-> "returned",
     totalLinesChanged |-> 0,
     averageCommitSize |-> 0,
     timeDistribution |-> [morning |-> 0, afternoon |-> 0, evening |-> 0],
     impactMetrics |-> [topFiles |-> << >>, directoryImpact |-> << >>],
     typeMetrics |-> [typeBreakdown |-> << >>, primaryContributionType |-> "UNKNOWN"],
     trends |-> null]

(***************************************************************************)
(* SpecVelocity: one call of calculateVelocityMetrics(commits) on a        *)
(* machine userTimezone hours east of UTC.  getCommitDetails resolves with *)
(* the stat text of the commit (SpecPipeline has its cache) or rejects.    *)
(***************************************************************************)
\* longest list of commits given to calculateVelocityMetrics
MaxVelocityCommits == 2

VelocityCommits ==
    { [subject |-> <<"f", "e", "a", "t", ":", " ", "a">>, hour |-> 11,
       files |-> << [path |-> <<"s", "/", "a", ".", "j", "s">>, ins |-> 3, del |-> 2] >>],
      [subject |-> <<"f", "i", "x", ":", " ", "a">>, hour |-> 16,
       files |-> << [path |-> <<"s", "/", "a", ".", "j", "s">>, ins |-> 1, del |-> 0] >>],
      [subject |-> <<"f", "e", "a", "t", ":", " ", "b">>, hour |-> 23,
       files |-> << [path |-> <<"s", "/", "a", ".", "j", "s">>, ins |-> 5, del |-> 0],
                    [path |-> <<"s", "/", "b", ".", "j", "s">>, ins |-> 2, del |-> 2],
                    [path |-> <<"s", "/", "c", ".", "j", "s">>, ins |-> 3, del |-> 0] >>],
      [subject |-> <<"x">>, hour |-> 0,
       files |-> << [path |-> <<"s", "/", "c", ".", "j", "s">>, ins |-> 0, del |-> 3],
                    [path |-> <<"e", ".", "j", "s">>, ins |-> 1, del |-> 0] >>],
      [subject |-> <<"x">>, hour |-> 4,
       files |-> << [path |-> <<"s", "/", "u", "/", "d", ".", "j", "s">>, ins |-> 5, del |-> 0],
                    [path |-> <<"s", "/", "a", ".", "j", "s">>, ins |-> 3, del |-> 0] >>],
      [subject |-> <<"x">>, hour |-> 5, files |-> << >>],
      [subject |-> <<"x">>, hour |-> 17,
       files |-> << [path |-> <<"e", ".", "j", "s">>, ins |-> 0, del |-> 2],
                    [path |-> <<"d", "i", "s", "t", "/", "b", ".", "j", "s">>, ins |-> 0, del |-> 1] >>],
      [subject |-> <<"d", "o", "c", "s", ":", " ", "a">>, hour |-> 12,
       files |-> << [path |-> <<"s", "/", "a", ".", "m", "d">>, ins |-> 0, del |-> 0] >>] }

\* getTimezoneOffset() / -60 of the machines
Timezones == {0 - 8, 0, 8}

velocityUnchanged == UNCHANGED <<cacheVars, resolverVars, pipelineVars, diffVars, typeVars, riskVars, trendVars, cliVars, reviewVars>>

InitVelocity ==
    /\ ReviewOff
    /\ CliOff
    /\ TrendsOff
    /\ ResolverIdle
    /\ PipelineOff
    /\ DiffOff
    /\ TypesOff
    /\ RiskOff
    /\ maxSize = CommitCacheSize
    /\ cache = << >>
    /\ touch = [k \in Keys |-> 0]
    /\ promoted = {}
    /\ clock = 0
    /\ lastOp = NoOp
    /\ \E n \in 0..MaxVelocityCommits : velocityCommits \in [1..n -> VelocityCommits]
    /\ userTimezone \in Timezones
    /\ commitIndex = 0
    /\ stats = Null
    /\ impact = Null
    /\ totalChanges = 0
    /\ timeDistribution = [morning |-> 0, afternoon |-> 0, evening |-> 0]
    /\ fileImpactData = [topFiles |-> << >>, directoryImpact |-> << >>]
    /\ commitsWithFiles = << >>
    /\ metrics = [kind |-> "none"]

\* one turn of for (const commit of commits), getCommitDetails resolved
VisitCommit ==
    /\ metrics.kind = "none"
    /\ commitIndex < Len(velocityCommits)
    /\ LET commit == velocityCommits[commitIndex + 1]
           details == statText(commit.files)
           stats_ == parseGitStats(details)
           impact_ == analyzeFileImpact(details)
           hour == remainder(commit.hour + userTimezone, 24)
       IN /\ stats' = stats_
          /\ impact' = impact_
          /\ commitsWithFiles' =
                Append(commitsWithFiles,
                       [message |-> commit.subject,
                        files |-> IF impact_.isNull THEN << >>
                                  ELSE [n \in 1..Len(impact_.topFiles) |-> impact_.topFiles[n].key]])
          /\ totalChanges' = IF stats_.isNull THEN totalChanges
                             ELSE totalChanges + stats_.totalChanges
          /\ fileImpactData' =
                IF impact_.isNull THEN fileImpactData
                ELSE [topFiles |-> plusAll(fileImpactData.topFiles, impact_.topFiles),
                      directoryImpact |->
                         plusAll(fileImpactData.directoryImpact,
                                 [n \in 1..Len(impact_.directoryImpact) |->
                                    [key |-> impact_.directoryImpact[n].directory,
                                     value |-> impact_.directoryImpact[n].changes]])]
          /\ timeDistribution' = [timeDistribution EXCEPT ![bucketOf(hour)] = @ + 1]
    /\ commitIndex' = commitIndex + 1
    /\ UNCHANGED <<velocityCommits, userTimezone, metrics>>
    /\ velocityUnchanged

\* getCommitDetails rejects: calculateVelocityMetrics rejects
DetailsRejected ==
    /\ metrics.kind = "none"
    /\ commitIndex < Len(velocityCommits)
    /\ metrics' = [kind |-> "rejected"]
    /\ UNCHANGED <<velocityCommits, userTimezone, commitIndex, stats, impact, totalChanges,
                   timeDistribution, fileImpactData, commitsWithFiles>>
    /\ velocityUnchanged

\* the early return for no commits, or the metrics object after the loop
ReturnMetrics ==
    /\ metrics.kind = "none"
    /\ commitIndex = Len(velocityCommits)
    /\ metrics' = IF Len(velocityCommits) = 0 THEN emptyMetrics
                  ELSE metricsOf(Len(velocityCommits), totalChanges, timeDistribution,
                                 fileImpactData, commitsWithFiles)
    /\ UNCHANGED <<velocityCommits, userTimezone, commitIndex, stats, impact, totalChanges,
                   timeDistribution, fileImpactData, commitsWithFiles>>
    /\ velocityUnchanged

NextVelocity ==
    \/ VisitCommit
    \/ DetailsRejected
    \/ ReturnMetrics

SpecVelocity == InitVelocity /\ [][NextVelocity]_vars

\* the commit visited last and the numbers of its files
visited == velocityCommits[commitIndex]

Returned_ == metrics.kind = "returned" /\ Len(velocityCommits) > 0

(***************************************************************************)
(* C16: for a summary line that carries only a subset of the three         *)
(* clauses, parseGitStats returns a record with the numbers that are       *)
(* present, 0 for each missing clause, and totalChanges = insertions +     *)
(* deletions.                                                              *)
(***************************************************************************)
\* the summary line of the commit leaves a clause out
SubsetOfClauses(files) ==
    /\ files # << >>
    /\ sumOf(files, "ins") = 0 \/ sumOf(files, "del") = 0
    /\ sumOf(files, "ins") + sumOf(files, "del") > 0

C16_MissingClausesAreZero ==
    (commitIndex > 0 /\ SubsetOfClauses(visited.files)) =>
        stats = [isNull |-> FALSE,
                 filesChanged |-> Len(visited.files),
                 insertions |-> sumOf(visited.files, "ins"),
                 deletions |-> sumOf(visited.files, "del"),
                 totalChanges |-> sumOf(visited.files, "ins") + sumOf(visited.files, "del")]

(***************************************************************************)
(* C17: every commit is counted in exactly one time-of-day bucket, chosen  *)
(* by its local hour of day in 0..23 (UTC hour plus offset, wrapped around *)
(* midnight): morning in [5,12), afternoon in [12,17), evening otherwise.  *)
(***************************************************************************)
localHour(h, offset) == (h + offset + 24) % 24

claimedBucket(n) ==
    LET h == localHour(velocityCommits[n].hour, userTimezone)
    IN CASE h \in 5..11 -> "morning" [] h \in 12..16 -> "afternoon" [] OTHER -> "evening"

C17_BucketByLocalHour ==
    \A name \in {"morning", "afternoon", "evening"} :
        timeDistribution[name] = Cardinality({n \in 1..commitIndex : claimedBucket(n) = name})

(***************************************************************************)
(* C18: impactMetrics.topFiles lists the (at most) five files with the     *)
(* largest changed-line totals summed over all commits of the set, in      *)
(* descending order of that total.                                         *)
(***************************************************************************)
\* the changed lines of a path, summed over all commits
totalOfFile(path) ==
    LET RECURSIVE inFiles(_)
        inFiles(files) ==
            IF files = << >> THEN 0
            ELSE (IF Head(files).path = path THEN Head(files).ins + Head(files).del ELSE 0)
                    + inFiles(Tail(files))
        RECURSIVE inCommits(_)
        inCommits(n) == IF n = 0 THEN 0 ELSE inFiles(velocityCommits[n].files) + inCommits(n - 1)
    IN inCommits(Len(velocityCommits))

\* the files the metrics count, with changed lines
changedFiles ==
    {f \in UNION {{velocityCommits[n].files[m].path : m \in 1..Len(velocityCommits[n].files)} :
                     n \in 1..Len(velocityCommits)} :
        shouldIncludeFile(f) /\ totalOfFile(f) > 0}

C18_TopFilesByTotalOverAllCommits ==
    Returned_ =>
        LET top == metrics.impactMetrics.topFiles
            listed == {top[n].file : n \in 1..Len(top)}
        IN /\ Len(top) <= topCount
           /\ Len(top) >= (IF Cardinality(changedFiles) < topCount
                           THEN Cardinality(changedFiles) ELSE topCount)
           /\ \A n \in 1..Len(top) : top[n].changes = totalOfFile(top[n].file)
           /\ \A m, n \in 1..Len(top) : m < n => top[m].changes >= top[n].changes
           /\ \A f \in changedFiles \ listed :
                 \A n \in 1..Len(top) : totalOfFile(f) <= totalOfFile(top[n].file)

(***************************************************************************)
(* C19 (as stated): each entry of the flat directoryImpact list of the     *)
(* velocity metrics has percentage = its changes divided by the largest    *)
(* single directory's changes, times 100; every percentage is a finite     *)
(* number from 0 to 100 and the first entry is 100.                        *)
(***************************************************************************)
\* p tenths is num / den * 100 to one decimal
isPercentageOf(p, num, den) ==
    /\ DOMAIN p = {"tenths"}
    /\ den > 0
    /\ 2 * (p.tenths * den - 1000 * num) <= den
    /\ 2 * (1000 * num - p.tenths * den) <= den

flatList == metrics.impactMetrics.directoryImpact

largestDirectory ==
    CHOOSE x \in {flatList[n].changes : n \in 1..Len(flatList)} :
        \A n \in 1..Len(flatList) : flatList[n].changes <= x

C20_GroupedSumEqualsFlatSum ==
    /\ (commitIndex > 0 /\ ~impact.isNull) =>
          sumOf(impact.groupedDirectories, "changes") = sumOf(impact.directoryImpact, "changes")
    /\ Returned_ =>
          sumOf(metrics.impactMetrics.groupedDirectories, "changes") = sumOf(flatList, "changes")

(***************************************************************************)
(* Notions for the claims about the batched message lookups.               *)
(***************************************************************************)
\* the `git show` commands of the running call, and those not settled yet
showsIssued == {n \in DOMAIN issued : issued[n].cmd = "show"}
showsInFlight == {n \in showsIssued : issued[n].result = "pending"}

\* the position in the resolved list of the line a lookup is for
lineOf(h) == CHOOSE n \in 1..Len(commits) : parseLine(commits[n]).hash = h

\* the consecutive batch (0, 1, ...) a position of the list belongs to
batchNumber(n) == (n - 1) \div batchSize

(***************************************************************************)
(* C23: the message lookups are issued in consecutive batches of at most   *)
(* batchSize lines: never more than batchSize lookups are in flight, the   *)
(* lookups in flight all belong to the batch the loop is at, and no lookup *)
(* of a later batch has been started; so a lookup of batch k+1 starts only *)
(* when every lookup of batch k has settled.                               *)
(***************************************************************************)
C23_LookupsInConsecutiveBatches ==
    /\ Cardinality(showsInFlight) <= batchSize
    /\ \A n \in showsInFlight :
           batchNumber(lineOf(issued[n].hash)) = batchStart \div batchSize
    /\ \A n \in showsIssued :
           batchNumber(lineOf(issued[n].hash)) <= batchStart \div batchSize

\* a lookup of the second batch is in flight, those of the first have settled
C23_Witness ==
    /\ pc = "await"
    /\ batchStart = batchSize
    /\ showsInFlight # {}
    /\ Cardinality(showsIssued \ showsInFlight) = batchSize

(***************************************************************************)
(* C29: only the third log query of a call carries the case-insensitive    *)
(* flag; the first and the second are case-sensitive, whatever the author  *)
(* query is.                                                               *)
(***************************************************************************)
C29_IgnoreCaseOnlyOnThirdAttempt ==
    \A k \in 1..Len(logQueries) : logQueries[k].ignoreCase <=> (k = 3)

(***************************************************************************)
(* SpecLookups: the callback of batch.map in getAuthorCommits, run by any  *)
(* number of lookups at once on the shared commitCache.  Calls of          *)
(* getAuthorCommits that run side by side (compareTrends starts two with   *)
(* Promise.all) list the same commits, so lookups of one hash can race:    *)
(* batchResults holds the lookups whose `git show` has not settled.        *)
(***************************************************************************)
\* callbacks in flight at once
MaxLookups == 3

lookupsUnchanged ==
    UNCHANGED <<maxSize, touch, promoted, clock, lastOp, pc, author, since, until,
                includeDirs, excludeDirs, patternIndex, filesToInclude, output, commits,
                batchStart, results, ret, issued, cacheAtCall, pipelineVars, analysisVars>>

\* the list without its n-th element
without(seq, n) == SubSeq(seq, 1, n - 1) \o SubSeq(seq, n + 1, Len(seq))

\* a callback that stores under a hash shared by the callbacks in flight
storeMessage_sharedHash(c, h) ==
    set(c, maxSize, batchResults[Len(batchResults)].hash, parseMessage(showOutput(h)))

\* commitCache.set(hash, [subject || '', body || '']) with the fetched text
storeMessage(c, h) == set(c, maxSize, h, parseMessage(showOutput(h)))

\* a callback starts for the line of commit h: commitCache.get(hash) and,
\* on a miss, the start of `git show`
BeginLookup(h) ==
    /\ Len(batchResults) < MaxLookups
    /\ LET st == startLookups(<<formatLine(commitOf(h))>>, cache) IN
         /\ cache' = st.cache
         /\ batchResults' = IF st.promises[1].state = "pending"
                            THEN Append(batchResults, st.promises[1])
                            ELSE batchResults
    /\ lookupsUnchanged

\* the `git show` of the n-th lookup in flight resolves
FetchResolved(n) ==
    /\ n \in 1..Len(batchResults)
    /\ cache' = storeMessage(cache, batchResults[n].hash)
    /\ batchResults' = without(batchResults, n)
    /\ lookupsUnchanged

\* ... or rejects: the callback returns the empty message, nothing is stored
FetchRejected(n) ==
    /\ n \in 1..Len(batchResults)
    /\ batchResults' = without(batchResults, n)
    /\ UNCHANGED cache
    /\ lookupsUnchanged

NextLookups ==
    \/ \E h \in Hashes : BeginLookup(h)
    \/ \E n \in 1..MaxLookups : FetchResolved(n)
    \/ \E n \in 1..MaxLookups : FetchRejected(n)

SpecLookups == Init /\ [][NextLookups]_vars

(***************************************************************************)
(* C24: under every interleaving of the lookups in flight, lookups of the  *)
(* same hash included, the shared cache holds at most maxSize entries, no  *)
(* key twice, and the value under every key is the message fetched for     *)
(* that key.                                                               *)
(***************************************************************************)
C24_CacheConsistentUnderInterleaving ==
    /\ size(cache) <= maxSize
    /\ \A i, j \in 1..Len(cache) : cache[i].k = cache[j].k => i = j
    /\ \A i \in 1..Len(cache) : cache[i].v = parseMessage(showOutput(cache[i].k))

\* the cache is full and holds a key that a lookup still in flight is going
\* to store again: another lookup of the same hash has overtaken it
C24_Witness ==
    /\ size(cache) = maxSize
    /\ \E n \in 1..Len(batchResults) : has(cache, batchResults[n].hash)

(***************************************************************************)
(* Notions for the claims about the hunks of a ChangeSet: the lines of the *)
(* diff that was categorized, read as the specification reads them.        *)
(***************************************************************************)
inputLines == split(reconstructor.diff, "\n")

isHeaderLine(line) == startsWith(line, <<"d", "i", "f", "f", " ", "-", "-", "g", "i", "t">>)
isMarkerLine(line) == startsWith(line, <<"@", "@", " ">>)
isBodyLine(line) ==
    startsWith(line, <<"+">>) \/ startsWith(line, <<"-">>) \/ startsWith(line, <<" ">>)

headerPositions == {n \in 1..Len(inputLines) : isHeaderLine(inputLines[n])}
markerPositions == {n \in 1..Len(inputLines) : isMarkerLine(inputLines[n])}

\* the largest position of ps before n, 0 when there is none
lastBefore(ps, n) ==
    IF \E k \in ps : k < n
    THEN CHOOSE k \in ps : k < n /\ \A m \in ps : m < n => m <= k
    ELSE 0

\* the `diff --git` line that most recently precedes line n, and its number
\* among the headers of the diff
headerOf(n) == lastBefore(headerPositions, n)
ordinalOf(h) == Cardinality({k \in headerPositions : k <= h})

\* line n belongs to a hunk: a marker inside a file, or a +, - or space line
\* with a marker after the last header before it
inHunk(n) ==
    /\ headerOf(n) > 0
    /\ \/ n \in markerPositions
       \/ /\ n \notin headerPositions
          /\ isBodyLine(inputLines[n])
          /\ lastBefore(markerPositions, n) > headerOf(n)

\* the lines of the hunks of the files whose header was given the key
\* [status, file], in input order
expectedLines(key) ==
    LET positions == SelectSeq([n \in 1..Len(inputLines) |-> n],
                               LAMBDA n : inHunk(n) /\ headerLog[ordinalOf(headerOf(n))] = key)
    IN [i \in 1..Len(positions) |-> inputLines[positions[i]]]

\* the hunks a ChangeSet holds under a key, and all their lines in order
storedHunks(result, key) ==
    IF \E n \in 1..Len(result[key.status]) : result[key.status][n].file = key.file
    THEN result[key.status][CHOOSE n \in 1..Len(result[key.status]) :
                                result[key.status][n].file = key.file].hunks
    ELSE << >>
storedLines(result, key) == concat(storedHunks(result, key))

\* the keys a ChangeSet has entries under
storedKeys(result) ==
    UNION {{[status |-> t, file |-> result[t][n].file] : n \in 1..Len(result[t])} :
              t \in ChangeTypes}

\* categorizeFileChanges has returned a ChangeSet
Categorized == settlement.kind = "resolved"

(***************************************************************************)
(* C25: the pending hunk is flushed before the state of the next marker is *)
(* taken: in the ChangeSet returned, the lines of every hunk opened by a   *)
(* `@@` line are stored once, in input order, under the change type and    *)
(* file taken at the `diff --git` line that most recently precedes them,   *)
(* the last hunk of the input included; a `@@` line always opens a stored  *)
(* hunk and nothing is stored under another key.                           *)
(***************************************************************************)
C25_HunksUnderPrecedingHeader ==
    Categorized =>
        LET result == settlement.changes
            keys == {headerLog[k] : k \in 1..Len(headerLog)}
        IN /\ Len(headerLog) = Cardinality(headerPositions)
           /\ storedKeys(result) \subseteq keys
           /\ \A key \in keys :
                 /\ storedLines(result, key) = expectedLines(key)
                 /\ \A h \in 1..Len(storedHunks(result, key)) :
                       \A i \in 2..Len(storedHunks(result, key)[h]) :
                           ~isMarkerLine(storedHunks(result, key)[h][i])

\* a streamed diff of two files, each with a hunk, has been categorized; the
\* last hunk was pending when the input ended
C25_Witness ==
    /\ Categorized
    /\ reconstructor.stream
    /\ reconstructor.diff = DiffModifiedThenAdded
    /\ Len(headerLog) = 2
    /\ \A k \in 1..2 : storedLines(settlement.changes, headerLog[k]) # << >>

(***************************************************************************)
(* C26: every hunk stored in a ChangeSet begins with a `@@ ` marker line   *)
(* and holds after it only lines prefixed with +, - or space, also when    *)
(* the hunk is longer than the limit of the periodic flush.                *)
(***************************************************************************)
C26_StoredHunkBeginsWithMarker ==
    \A t \in ChangeTypes :
        \A n \in 1..Len(changes[t]) :
            \A h \in 1..Len(changes[t][n].hunks) :
                LET hunk == changes[t][n].hunks[h] IN
                /\ Len(hunk) >= 1
                /\ isMarkerLine(hunk[1])
                /\ \A i \in 2..Len(hunk) : isBodyLine(hunk[i]) /\ ~isMarkerLine(hunk[i])

(***************************************************************************)
(* C28: however the diff is cut into stream chunks, the streaming          *)
(* categorization returns the ChangeSet the buffered categorization        *)
(* returns for the whole text.                                             *)
(***************************************************************************)
\* the ChangeSet of the buffered categorizeFileChanges for a diff text
bufferedChanges(text) ==
    flushPending(processLines(scannerStart, split(text, "\n"), text, "service")).changes

C28_StreamingEqualsBuffered ==
    (Categorized /\ reconstructor.stream) =>
        settlement.changes = bufferedChanges(reconstructor.diff)

(***************************************************************************)
(* C27: the commit entries are written to the commit-log file in the order *)
(* of the resolved commit list, in whatever order the lookups of a chunk   *)
(* complete.                                                               *)
(***************************************************************************)
\* the place of a commit in the resolved list
placeOf(h) == CHOOSE n \in 1..Len(commitList) : commitList[n].hash = h

C27_WrittenInListOrder ==
    \A i, j \in 1..Len(written) : i < j => placeOf(written[i]) < placeOf(written[j])

(***************************************************************************)
(* Trends (services/trendService): PERIODS, getTrends, getRollingTrends.   *)
(* A Date is modelled by its UTC calendar day [y, m, d], the month counted *)
(* from 0 as getUTCMonth does; the time of day plays no part in the period *)
(* bounds, which are the first instant of startDate and the last           *)
(* millisecond of endDate.                                                 *)
(***************************************************************************)
\* the years the calendar of the model covers; day 0 is January 1, 2020
Years == 2020..2026

isLeapYear(y) == (y % 4 = 0 /\ y % 100 # 0) \/ y % 400 = 0

daysInMonth(y, m) ==
    IF m = 1 THEN (IF isLeapYear(y) THEN 29 ELSE 28)
    ELSE IF m \in {3, 5, 8, 10} THEN 30 ELSE 31

daysInYear(y) == IF isLeapYear(y) THEN 366 ELSE 365

RECURSIVE daysBeforeYear(_)
daysBeforeYear(y) == IF y <= 2020 THEN 0 ELSE daysBeforeYear(y - 1) + daysInYear(y - 1)

RECURSIVE daysBeforeMonth(_, _)
daysBeforeMonth(y, m) == IF m <= 0 THEN 0 ELSE daysBeforeMonth(y, m - 1) + daysInMonth(y, m - 1)

\* the calendar day with the number n
dayOf(n) ==
    LET y == CHOOSE a \in Years :
                 daysBeforeYear(a) <= n /\ n < daysBeforeYear(a) + daysInYear(a)
        inYear == n - daysBeforeYear(y)
        m == CHOOSE a \in 0..11 :
                 daysBeforeMonth(y, a) <= inYear /\ inYear < daysBeforeMonth(y, a) + daysInMonth(y, a)
    IN [y |-> y, m |-> m, d |-> inYear - daysBeforeMonth(y, m) + 1]

\* Date.UTC(year, month, day): a month outside 0..11 moves the year, a day
\* outside the month moves on into the neighbouring months
dateUTC(year, month, day) ==
    dayOf(daysBeforeYear(year + (month \div 12)) + daysBeforeMonth(year + (month \div 12), month % 12)
          + day - 1)

\* the number of a calendar day
dayNumber(date) == daysBeforeYear(date.y) + daysBeforeMonth(date.y, date.m) + date.d - 1

\* Date.prototype.getUTCDay: 0 is Sunday; January 1, 2020 is a Wednesday
getUTCDay(date) == (3 + dayNumber(date)) % 7

\* Date.prototype.setUTCDate, setUTCMonth, setUTCFullYear
setUTCDate(date, day) == dateUTC(date.y, date.m, day)
setUTCMonth(date, month) == dateUTC(date.y, month, date.d)
setUTCFullYear(date, year) == dateUTC(year, date.m, date.d)

\* the keys of PERIODS
PERIODS == {"daily", "weekly", "monthly", "yearly"}

\* PERIODS[period].startOf(date)
startOf(period, date) ==
    CASE period = "daily"   -> date
      [] period = "weekly"  -> setUTCDate(date, date.d - getUTCDay(date))
      [] period = "monthly" -> dateUTC(date.y, date.m, 1)
      [] period = "yearly"  -> dateUTC(date.y, 0, 1)

\* PERIODS[period].endOf(date)
endOf(period, date) ==
    CASE period = "daily"   -> date
      [] period = "weekly"  -> setUTCDate(date, date.d + (6 - getUTCDay(date)))
      [] period = "monthly" -> dateUTC(date.y, date.m + 1, 0)
      [] period = "yearly"  -> dateUTC(date.y, 11, 31)

\* getTrends(author, period, date): the bounds of the period of date; the
\* commits of the period and their metrics do not enter the bounds
getTrends(period, date) ==
    [period |-> period, startDate |-> startOf(period, date), endDate |-> endOf(period, date)]

\* const date = new Date(endDate); switch (period) ...: the date of turn i
adjusted(period, date, i) ==
    CASE period = "daily"   -> setUTCDate(date, date.d - i)
      [] period = "weekly"  -> setUTCDate(date, date.d - (i * 7))
      [] period = "monthly" -> setUTCMonth(date, date.m - i)
      [] period = "yearly"  -> setUTCFullYear(date, date.y - i)

(***************************************************************************)
(* SpecTrends: one call of getRollingTrends.                               *)
(***************************************************************************)
\* the largest count asked for
MaxCount == 3

\* the period names a caller passes, one of them not a key of PERIODS
PeriodNames == PERIODS \cup {"hourly"}

\* the end dates: the date of the test, ends and starts of months, a leap
\* day, a Sunday and a Saturday
EndDates ==
    { [y |-> 2024, m |-> 0, d |-> 15], [y |-> 2024, m |-> 2, d |-> 31],
      [y |-> 2024, m |-> 1, d |-> 29], [y |-> 2024, m |-> 0, d |-> 1],
      [y |-> 2023, m |-> 11, d |-> 31], [y |-> 2024, m |-> 4, d |-> 30],
      [y |-> 2024, m |-> 2, d |-> 3], [y |-> 2024, m |-> 5, d |-> 29] }

trendsUnchanged == UNCHANGED <<cacheVars, resolverVars, pipelineVars, diffVars, typeVars, riskVars, velocityVars, cliVars, reviewVars>>

InitTrends ==
    /\ ReviewOff
    /\ CliOff
    /\ ResolverIdle
    /\ PipelineOff
    /\ DiffOff
    /\ TypesOff
    /\ RiskOff
    /\ VelocityOff
    /\ maxSize = CommitCacheSize
    /\ cache = << >>
    /\ touch = [k \in Keys |-> 0]
    /\ promoted = {}
    /\ clock = 0
    /\ lastOp = NoOp
    /\ trendPeriod \in PeriodNames
    /\ trendCount \in 0..MaxCount
    /\ trendEndDate \in EndDates
    /\ trendIndex = 0
    /\ trends = << >>
    /\ trendState = "called"

\* if (!PERIODS[period]) throw new Error(`Invalid period: ${period}`)
InvalidPeriod ==
    /\ trendState = "called"
    /\ trendPeriod \notin PERIODS
    /\ trendState' = "rejected"
    /\ UNCHANGED <<trendPeriod, trendCount, trendEndDate, trendIndex, trends>>
    /\ trendsUnchanged

\* one turn of the loop: trends.push(await getTrends(author, period, date))
TrendTurn ==
    /\ trendState = "called"
    /\ trendPeriod \in PERIODS
    /\ trendIndex < trendCount
    /\ trends' = Append(trends, getTrends(trendPeriod,
                            adjusted(trendPeriod, trendEndDate, trendIndex)))
    /\ trendIndex' = trendIndex + 1
    /\ UNCHANGED <<trendPeriod, trendCount, trendEndDate, trendState>>
    /\ trendsUnchanged

\* return trends
TrendsReturned ==
    /\ trendState = "called"
    /\ trendPeriod \in PERIODS
    /\ trendIndex >= trendCount
    /\ trendState' = "returned"
    /\ UNCHANGED <<trendPeriod, trendCount, trendEndDate, trendIndex, trends>>
    /\ trendsUnchanged

NextTrends ==
    \/ InvalidPeriod
    \/ TrendTurn
    \/ TrendsReturned

SpecTrends == InitTrends /\ [][NextTrends]_vars

(***************************************************************************)
(* C21: getRollingTrends returns exactly count periods, the i-th (from 0)  *)
(* being the calendar-aligned period i steps before the period that        *)
(* contains endDate: the day i days before, the Sunday-to-Saturday week i  *)
(* weeks before, the calendar month i months before, the calendar year i   *)
(* years before, whatever the day of the month of endDate is.              *)
(***************************************************************************)
\* the calendar month number k, counted from January of year 0
monthOf(k) == [y |-> k \div 12, m |-> k % 12]

\* the period i steps before the one that contains date
periodBefore(period, date, i) ==
    CASE period = "daily" ->
            [startDate |-> dayOf(dayNumber(date) - i), endDate |-> dayOf(dayNumber(date) - i)]
      [] period = "weekly" ->
            LET sunday == dayNumber(date) - getUTCDay(date) - 7 * i IN
            [startDate |-> dayOf(sunday), endDate |-> dayOf(sunday + 6)]
      [] period = "monthly" ->
            LET month == monthOf(date.y * 12 + date.m - i) IN
            [startDate |-> [y |-> month.y, m |-> month.m, d |-> 1],
             endDate |-> [y |-> month.y, m |-> month.m, d |-> daysInMonth(month.y, month.m)]]
      [] period = "yearly" ->
            [startDate |-> [y |-> date.y - i, m |-> 0, d |-> 1],
             endDate |-> [y |-> date.y - i, m |-> 11, d |-> 31]]

C21_RollingPeriodsAligned ==
    trendState = "returned" =>
        /\ Len(trends) = trendCount
        /\ \A n \in 1..Len(trends) :
              LET expected == periodBefore(trendPeriod, trendEndDate, n - 1) IN
              /\ trends[n].startDate = expected.startDate
              /\ trends[n].endDate = expected.endDate

(***************************************************************************)
(* The command line (cli/index.js): main, from the arguments to the exit   *)
(* of the process, with the repository commands it runs on the way.        *)
(***************************************************************************)
\* the arguments a caller can combine
CliTokens ==
    {"author", "--help", "--skip-fetch", "--list-authors", "--verify", "--since=9",
     "--include-dirs=s", "--exclude-dirs=d", "--trend=daily", "--trend=yearly"}

\* an error caught by main: printed, then process.exit(1)
failure(code) == [kind |-> "error", structured |-> TRUE, code |-> code, status |-> 1]
success == [kind |-> "ok", status |-> 0]

\* args.includes('--help') || args.includes('-h') || args.length === 0
wantsHelp(args) == "--help" \in args \/ args = {}

\* includeDirs.length > 0 && excludeDirs.length > 0
bothDirLists(args) == "--include-dirs=s" \in args /\ "--exclude-dirs=d" \in args

\* trend && !['daily', 'weekly', 'monthly'].includes(trend)
badTrend(args) == "--trend=daily" \notin args /\ "--trend=yearly" \in args

\* main after the fetch, up to its next await or its end: [pc, exit]
dispatch(args) ==
    IF "--list-authors" \in args THEN [pc |-> "listCheck", exit |-> [kind |-> "none"]]
    ELSE IF "--verify" \in args THEN [pc |-> "verifyCheck", exit |-> [kind |-> "none"]]
    ELSE IF bothDirLists(args) THEN [pc |-> "done", exit |-> failure("INVALID_ARGS")]
    ELSE IF badTrend(args) THEN [pc |-> "done", exit |-> failure("INVALID_TREND_PERIOD")]
    ELSE [pc |-> "logCheck", exit |-> [kind |-> "none"]]

cliUnchanged == UNCHANGED <<cacheVars, resolverVars, pipelineVars, diffVars, typeVars, riskVars, velocityVars, trendVars, reviewVars>>

InitCli ==
    /\ ReviewOff
    /\ ResolverIdle
    /\ PipelineOff
    /\ DiffOff
    /\ TypesOff
    /\ RiskOff
    /\ VelocityOff
    /\ TrendsOff
    /\ maxSize = CommitCacheSize
    /\ cache = << >>
    /\ touch = [k \in Keys |-> 0]
    /\ promoted = {}
    /\ clock = 0
    /\ lastOp = NoOp
    /\ cliArgs \in SUBSET CliTokens
    /\ cliPc = "start"
    /\ cliCommands = << >>
    /\ cliExit = [kind |-> "none"]

\* main up to its first await: the usage text, or the fetch unless --skip-fetch
MainStart ==
    /\ cliPc = "start"
    /\ IF wantsHelp(cliArgs)
       THEN cliPc' = "done" /\ cliExit' = success
       ELSE IF "--skip-fetch" \notin cliArgs
       THEN cliPc' = "fetch" /\ UNCHANGED cliExit
       ELSE cliPc' = dispatch(cliArgs).pc /\ cliExit' = dispatch(cliArgs).exit
    /\ UNCHANGED <<cliArgs, cliCommands>>
    /\ cliUnchanged

\* await fetchLatestChanges(): `git fetch --all` ends, well or not
FetchSettled(ok) ==
    /\ cliPc = "fetch"
    /\ cliCommands' = Append(cliCommands, [cmd |-> "fetch", ok |-> ok])
    /\ cliPc' = dispatch(cliArgs).pc
    /\ cliExit' = dispatch(cliArgs).exit
    /\ UNCHANGED cliArgs
    /\ cliUnchanged

\* await isGitRepository() of --list-authors, --verify or the log generators
RepositoryChecked(ok) ==
    /\ cliPc \in {"listCheck", "verifyCheck", "logCheck"}
    /\ cliCommands' = Append(cliCommands, [cmd |-> "rev-parse", ok |-> ok])
    /\ IF ~ok
       THEN cliPc' = "done" /\ cliExit' = failure("NOT_GIT_REPO")
       ELSE /\ cliPc' = IF cliPc = "logCheck" THEN "history" ELSE "authors"
            /\ UNCHANGED cliExit
    /\ UNCHANGED cliArgs
    /\ cliUnchanged

\* await getAllAuthors() of --list-authors and --verify; with --verify and a
\* date range the commits of the anyMatch authors are queried next
AuthorsListed(ok, anyMatch) ==
    /\ cliPc = "authors"
    /\ cliCommands' = Append(cliCommands, [cmd |-> "shortlog", ok |-> ok])
    /\ IF ~ok
       THEN cliPc' = "done" /\ cliExit' = failure("GIT_OPERATION_FAILED")
       ELSE IF "--list-authors" \notin cliArgs /\ anyMatch /\ "--since=9" \in cliArgs
       THEN cliPc' = "history" /\ UNCHANGED cliExit
       ELSE cliPc' = "done" /\ cliExit' = success
    /\ UNCHANGED cliArgs
    /\ cliUnchanged

\* await getAuthorCommits(...) / getRollingTrends(...): the history query
HistoryQueried(ok) ==
    /\ cliPc = "history"
    /\ cliCommands' = Append(cliCommands, [cmd |-> "log", ok |-> ok])
    /\ cliPc' = "done"
    /\ cliExit' = IF ok THEN success ELSE failure("GIT_OPERATION_FAILED")
    /\ UNCHANGED cliArgs
    /\ cliUnchanged

NextCli ==
    \/ MainStart
    \/ \E ok \in BOOLEAN : FetchSettled(ok)
    \/ \E ok \in BOOLEAN : RepositoryChecked(ok)
    \/ \E ok \in BOOLEAN, anyMatch \in BOOLEAN : AuthorsListed(ok, anyMatch)
    \/ \E ok \in BOOLEAN : HistoryQueried(ok)

SpecCli == InitCli /\ [][NextCli]_vars

(***************************************************************************)
(* C22: when both --include-dirs and --exclude-dirs are given (and the     *)
(* usage text is not asked for), the command ends with the structured      *)
(* argument error and a non-zero exit status, and no repository command    *)
(* (fetch, repository check, history query) is run before it.              *)
(***************************************************************************)
C22_BothDirListsFailBeforeAnyCommand ==
    (bothDirLists(cliArgs) /\ ~wantsHelp(cliArgs)) =>
        /\ cliCommands = << >>
        /\ cliPc = "done" =>
              /\ cliExit.kind = "error" /\ cliExit.structured
              /\ cliExit.code = "INVALID_ARGS"
              /\ cliExit.status # 0

(***************************************************************************)
(* Review mode with --create-branch (ReviewCommand.execute, with           *)
(* getCurrentBranch, createReviewBranch and cleanupReviewBranch of         *)
(* gitOperations), from the point where commits to review were found.  The *)
(* repository is its set of branches and the branch checked out.           *)
(***************************************************************************)
\* the branches a repository of the model can have before the review
BranchNames == {"main", "work", "r"}
\* the name execute makes up when --branch-name is not given
generatedName == "review/author/now"
\* the largest number of commits to review
MaxReviewCommits == 2

\* reviewBranch = this.branchName || `review/${this.author}/...`
reviewBranchName(args) == IF args.branchName # null THEN args.branchName ELSE generatedName

\* `git branch -D name` can be run: the branch exists and is not checked out
canDelete(branches, head, name) == name \in branches /\ name # head

\* cleanupReviewBranch(branchName, returnBranch): `git checkout returnBranch`,
\* then `git branch -D branchName`; returnBranch is a branch or a commit
cleanupReviewBranch(branches, name, returnBranch) ==
    [head |-> returnBranch,
     branches |-> IF canDelete(branches, returnBranch, name)
                  THEN branches \ {name} ELSE branches]

reviewUnchanged == UNCHANGED <<cacheVars, resolverVars, pipelineVars, diffVars, typeVars, riskVars, velocityVars, trendVars, cliVars>>

InitReview ==
    /\ ResolverIdle
    /\ PipelineOff
    /\ DiffOff
    /\ TypesOff
    /\ RiskOff
    /\ VelocityOff
    /\ TrendsOff
    /\ CliOff
    /\ maxSize = CommitCacheSize
    /\ cache = << >>
    /\ touch = [k \in Keys |-> 0]
    /\ promoted = {}
    /\ clock = 0
    /\ lastOp = NoOp
    /\ \E existing \in SUBSET BranchNames, start \in BranchNames,
          name \in {null, "r"}, cleanup \in BOOLEAN, n \in 1..MaxReviewCommits :
          /\ start \in existing
          /\ reviewArgs = [cleanup |-> cleanup, branchName |-> name, start |-> start,
                           existing |-> existing, commitCount |-> n]
          /\ repoBranches = existing
          /\ repoHead = start
    /\ reviewPc = "current"
    /\ originalBranch = null
    /\ reviewBranch = null
    /\ picked = 0
    /\ reviewOutcome = [kind |-> "none"]

\* originalBranch = await getCurrentBranch(); reviewBranch = ...
CurrentBranchRead ==
    /\ reviewPc = "current"
    /\ originalBranch' = repoHead
    /\ reviewBranch' = reviewBranchName(reviewArgs)
    /\ reviewPc' = "create"
    /\ UNCHANGED <<reviewArgs, repoBranches, repoHead, picked, reviewOutcome>>
    /\ reviewUnchanged

\* getCurrentBranch throws GIT_BRANCH_ERROR: nothing is known yet to clean up
CurrentBranchFailed ==
    /\ reviewPc = "current"
    /\ reviewOutcome' = [kind |-> "error", code |-> "GIT_BRANCH_ERROR"]
    /\ reviewPc' = "catch"
    /\ UNCHANGED <<reviewArgs, repoBranches, repoHead, originalBranch, reviewBranch, picked>>
    /\ reviewUnchanged

\* createReviewBranch: `git checkout -b branchName startPoint` succeeds
BranchCreated ==
    /\ reviewPc = "create"
    /\ reviewBranch \notin repoBranches
    /\ repoBranches' = repoBranches \cup {reviewBranch}
    /\ repoHead' = reviewBranch
    /\ reviewPc' = "pick"
    /\ UNCHANGED <<reviewArgs, originalBranch, reviewBranch, picked, reviewOutcome>>
    /\ reviewUnchanged

\* ... or fails, a branch of that name being there: BRANCH_CREATION_FAILED
BranchCreationFailed ==
    /\ reviewPc = "create"
    /\ reviewBranch \in repoBranches
    /\ reviewOutcome' = [kind |-> "error", code |-> "BRANCH_CREATION_FAILED"]
    /\ reviewPc' = "catch"
    /\ UNCHANGED <<reviewArgs, repoBranches, repoHead, originalBranch, reviewBranch, picked>>
    /\ reviewUnchanged

\* `git cherry-pick --allow-empty commit` succeeds
CherryPicked ==
    /\ reviewPc = "pick"
    /\ picked < reviewArgs.commitCount
    /\ picked' = picked + 1
    /\ reviewPc' = IF picked + 1 = reviewArgs.commitCount THEN "report" ELSE "pick"
    /\ UNCHANGED <<reviewArgs, repoBranches, repoHead, originalBranch, reviewBranch, reviewOutcome>>
    /\ reviewUnchanged

\* ... or conflicts: cherry-pick --abort, cleanupReviewBranch(branchName,
\* startPoint) with the start commit as return point, CHERRY_PICK_CONFLICT
CherryPickConflict ==
    /\ reviewPc = "pick"
    /\ picked < reviewArgs.commitCount
    /\ LET after == cleanupReviewBranch(repoBranches, reviewBranch, "detached") IN
         /\ repoBranches' = after.branches
         /\ repoHead' = after.head
    /\ reviewOutcome' = [kind |-> "error", code |-> "CHERRY_PICK_CONFLICT"]
    /\ reviewPc' = "catch"
    /\ UNCHANGED <<reviewArgs, originalBranch, reviewBranch, picked>>
    /\ reviewUnchanged

\* the diff is categorized and the report written; then the cleanup, or the
\* branch is preserved
ReportWritten ==
    /\ reviewPc = "report"
    /\ LET after == cleanupReviewBranch(repoBranches, reviewBranch, originalBranch) IN
         IF reviewArgs.cleanup
         THEN repoBranches' = after.branches /\ repoHead' = after.head
         ELSE UNCHANGED <<repoBranches, repoHead>>
    /\ reviewOutcome' = [kind |-> "ok"]
    /\ reviewPc' = "done"
    /\ UNCHANGED <<reviewArgs, originalBranch, reviewBranch, picked>>
    /\ reviewUnchanged

\* the diff or the report fails
ReportFailed ==
    /\ reviewPc = "report"
    /\ reviewOutcome' = [kind |-> "error", code |-> "REVIEW_GENERATION_FAILED"]
    /\ reviewPc' = "catch"
    /\ UNCHANGED <<reviewArgs, repoBranches, repoHead, originalBranch, reviewBranch, picked>>
    /\ reviewUnchanged

\* catch (error): if (this.cleanup && reviewBranch && originalBranch)
\* cleanupReviewBranch(reviewBranch, originalBranch), its failure only warned
\* about; then the error is thrown on
CleanupOnError ==
    /\ reviewPc = "catch"
    /\ LET after == cleanupReviewBranch(repoBranches, reviewBranch, originalBranch) IN
         IF reviewArgs.cleanup /\ reviewBranch # null /\ originalBranch # null
         THEN repoBranches' = after.branches /\ repoHead' = after.head
         ELSE UNCHANGED <<repoBranches, repoHead>>
    /\ reviewPc' = "done"
    /\ UNCHANGED <<reviewArgs, originalBranch, reviewBranch, picked, reviewOutcome>>
    /\ reviewUnchanged

NextReview ==
    \/ CurrentBranchRead
    \/ CurrentBranchFailed
    \/ BranchCreated
    \/ BranchCreationFailed
    \/ CherryPicked
    \/ CherryPickConflict
    \/ ReportWritten
    \/ ReportFailed
    \/ CleanupOnError

SpecReview == InitReview /\ [][NextReview]_vars

(***************************************************************************)
(* C30: the cleanup of a review with --create-branch deletes only a branch *)
(* this run created: no branch that existed before the run is ever         *)
(* deleted, and when the creation of the review branch has failed the      *)
(* repository is, at the end, on the branch it started on.                 *)
(***************************************************************************)
\* the creation of the review branch failed
creationFailed ==
    /\ reviewOutcome.kind = "error"
    /\ reviewOutcome.code \in {"BRANCH_CREATION_FAILED", "CHERRY_PICK_CONFLICT"}

C30_CleanupDeletesOnlyOwnBranch ==
    /\ reviewArgs.existing \subseteq repoBranches
    /\ (reviewPc = "done" /\ creationFailed) => repoHead = reviewArgs.start

====
